---- MODULE Spec2Model ----
(***************************************************************************)
(* Model of the comparison layer of wve-rs: the embedding-backed           *)
(* similarity service (embeddings.rs) and the pairwise comparator          *)
(* (comparison/diff.rs).                                                   *)
(*                                                                         *)
(* Strings are sequences of one-character strings, so that lowercasing,    *)
(* trimming and substring search are computed rather than assumed.         *)
(* f32 scores are fixed-point hundredths (0.7 is 70); the embedding        *)
(* vectors drawn below all have integral norms, so the cosine is exact.    *)
(* A float is a record [nan, v]; a vector a record [nan, xs].              *)
(* Option<T> is a sequence of length 0 (None) or 1 (Some).                 *)
(***************************************************************************)
EXTENDS Integers, Sequences, FiniteSets, TLC

(***************************************************************************)
(* Bounds                                                                  *)
(***************************************************************************)
MaxPoints == 2

MaxCands == 2

NThreads == 2

MaxCalls == 2

(***************************************************************************)
(* Strings                                                                 *)
(***************************************************************************)
UpperToLower ==
    [A |-> "a", I |-> "i", N |-> "n", O |-> "o", T |-> "t", X |-> "x"]

ToLowerChar(c) == IF c \in DOMAIN UpperToLower THEN UpperToLower[c] ELSE c

to_lowercase(s) == [k \in 1..Len(s) |-> ToLowerChar(s[k])]

IsWhitespace(c) == c = " "

RECURSIVE trim_start(_)
trim_start(s) ==
    IF s # <<>> /\ IsWhitespace(Head(s)) THEN trim_start(Tail(s)) ELSE s

RECURSIVE trim_end(_)
trim_end(s) ==
    IF s # <<>> /\ IsWhitespace(s[Len(s)])
    THEN trim_end(SubSeq(s, 1, Len(s) - 1))
    ELSE s

trim(s) == trim_end(trim_start(s))

contains(s, pat) ==
    \E k \in 1..(Len(s) - Len(pat) + 1) : SubSeq(s, k, k + Len(pat) - 1) = pat

normalize_theme(theme) == trim(to_lowercase(theme))

(***************************************************************************)
(* Inputs: themes, stances, points, worldviews                             *)
(***************************************************************************)
ThemeAi == <<"a", "i">>

ThemeAiUpper == <<"A", "I", " ">>

ThemeTax == <<"t", "a", "x">>

ThemeSet == {ThemeAi, ThemeAiUpper, ThemeTax}

\* the first theme in capitals, without the blank
ThemeAiCaps == <<"A", "I">>

\* a third unrelated theme, for inputs with three worldviews
ThemeWar == <<"w", "a", "r">>

StanceYes == <<"y", "e", "s">>

StanceNot == <<"N", "o", "t">>

Point(theme, stance) == [theme |-> theme, stance |-> stance]

\* the points drawn: a theme, a second spelling of it that normalises to
\* the same theme and carries a negated stance, and an unrelated theme
WorldviewPoint ==
    { Point(ThemeAi, StanceYes),
      Point(ThemeAiUpper, StanceNot),
      Point(ThemeTax, StanceYes) }

SeqsUpTo(S, n) == UNION {[1..k -> S] : k \in 0..n}

Worldview(subject) ==
    [subject : {subject}, points : SeqsUpTo(WorldviewPoint, MaxPoints)]

\* the slugs of the worldview store
Slugs == {"alice", "bob"}

\* a document serde_json cannot parse
Malformed == [kind |-> "malformed", slug |-> "", subject |-> "", points |-> <<>>]

\* the store with no worldview saved
EmptyStore == [s \in Slugs |-> <<>>]

(***************************************************************************)
(* Floats and vectors                                                      *)
(***************************************************************************)
F(x) == [nan |-> FALSE, v |-> x]

NaN == [nan |-> TRUE, v |-> 0]

Vec(xs) == [nan |-> FALSE, xs |-> xs]

VecNaN == [nan |-> TRUE, xs |-> <<0, 0, 0, 0>>]

RECURSIVE SumSeq(_)
SumSeq(s) == IF s = <<>> THEN 0 ELSE Head(s) + SumSeq(Tail(s))

Sqrt(n) == CHOOSE r \in 0..n : r * r <= n /\ n < (r + 1) * (r + 1)

Dot(a, b) == SumSeq([k \in 1..Len(a.xs) |-> a.xs[k] * b.xs[k]])

Norm(a) == Sqrt(SumSeq([k \in 1..Len(a.xs) |-> a.xs[k] * a.xs[k]]))

\* embeddings.rs cosine_similarity: a NaN norm is not == 0.0, so a NaN
\* operand yields NaN unless the other operand is the zero vector.
cosine_similarity(a, b) ==
    IF (~a.nan /\ Norm(a) = 0) \/ (~b.nan /\ Norm(b) = 0)
    THEN F(0)
    ELSE IF a.nan \/ b.nan
         THEN NaN
         ELSE F((100 * Dot(a, b)) \div (Norm(a) * Norm(b)))

\* f32 `x >= y`: false when either side is NaN
Ge(x, y) == ~x.nan /\ ~y.nan /\ x.v >= y.v

\* partial_cmp: None (the empty sequence) when either side is NaN
partial_cmp(x, y) ==
    IF x.nan \/ y.nan THEN <<>>
    ELSE IF x.v < y.v THEN <<"Less">>
    ELSE IF x.v > y.v THEN <<"Greater">>
    ELSE <<"Equal">>

(***************************************************************************)
(* The embedding model (fastembed, external): a deterministic function     *)
(* from text to vector, fixed for the life of the process.  The models     *)
(* drawn cover a lowercasing tokenizer (texts differing in case or         *)
(* trailing blanks embed alike), related and unrelated themes on either    *)
(* side of the threshold, the zero vector and a NaN output.                *)
(***************************************************************************)
VX == Vec(<<10, 0, 0, 0>>)

VY == Vec(<<0, 10, 0, 0>>)

V7 == Vec(<<7, 5, 5, 1>>)

V8 == Vec(<<8, 6, 0, 0>>)

V6 == Vec(<<6, 8, 0, 0>>)

VZero == Vec(<<0, 0, 0, 0>>)

VW == Vec(<<0, 0, 10, 0>>)

Embedding(ai, aiUpper, tax) ==
    [t \in ThemeSet \cup {ThemeWar, ThemeAiCaps} |->
        IF t \in {ThemeAi, ThemeAiCaps} THEN ai
        ELSE IF t = ThemeAiUpper THEN aiUpper
        ELSE IF t = ThemeTax THEN tax
        ELSE VW]

EmbeddingModels ==
    { Embedding(VX, VX, VY),
      Embedding(VX, V8, V6),
      Embedding(VX, V7, VY),
      Embedding(VZero, VX, VX),
      Embedding(VX, VecNaN, VY) }

(***************************************************************************)
(* embeddings.rs: the similarity service as seen by one caller             *)
(***************************************************************************)
\* What can go wrong in one find_most_similar call: try_new fails in
\* get_embedder (only while the cell is empty), embed fails for the query,
\* embed fails for the candidates, or nothing fails.
Faults(cell) ==
    (IF cell = <<>> THEN {"init"} ELSE {}) \cup {"embed_query", "embed_cands", "none"}

\* get_embedder by a single caller: the cell after the call
get_embedder_cell(cell, fault) ==
    IF cell # <<>> THEN cell
    ELSE IF fault = "init" THEN <<>>
    ELSE <<1>>

\* the comparator of sort_by: |a, b| b.1.partial_cmp(&a.1)
compare_desc(a, b) == partial_cmp(b.score, a.score)

\* slice::sort_by is stable: an element moves left only past elements the
\* comparator orders strictly after it.
RECURSIVE insert_tail_unstable(_, _)
insert_tail_unstable(s, x) ==
    IF s = <<>> THEN <<x>>
    ELSE IF compare_desc(x, s[Len(s)]) \in {<<"Less">>, <<"Equal">>}
         THEN Append(insert_tail_unstable(SubSeq(s, 1, Len(s) - 1), x), s[Len(s)])
         ELSE Append(s, x)

RECURSIVE insert_tail(_, _)
insert_tail(s, x) ==
    IF s = <<>> THEN <<x>>
    ELSE IF compare_desc(x, s[Len(s)]) = <<"Less">>
         THEN Append(insert_tail(SubSeq(s, 1, Len(s) - 1), x), s[Len(s)])
         ELSE Append(s, x)

RECURSIVE sort_by(_)
sort_by(s) ==
    IF s = <<>> THEN <<>>
    ELSE insert_tail(sort_by(SubSeq(s, 1, Len(s) - 1)), s[Len(s)])

\* partial_cmp(..).unwrap() panics on None.  With two or more elements a
\* sort compares every element at least once, so any NaN score is hit;
\* with fewer the comparator is never called.
sort_panics(s) == Len(s) >= 2 /\ \E k \in 1..Len(s) : s[k].score.nan

\* find_most_similar: Err when embed_text(query)? or embed_texts(candidates)?
\* fails, otherwise the candidates' (index, score) pairs sorted by score.
\* Indices are 1-based here, 0-based in the source.
find_most_similar(emb, query, cands, fault) ==
    IF fault # "none"
    THEN [tag |-> "Err", sims |-> <<>>]
    ELSE LET query_emb == emb[query]
             candidate_embs == [k \in 1..Len(cands) |-> emb[cands[k]]]
             similarities ==
                 [k \in 1..Len(cands) |->
                     [idx |-> k, score |-> cosine_similarity(query_emb, candidate_embs[k])]]
         IN  IF sort_panics(similarities)
             THEN [tag |-> "Panic", sims |-> <<>>]
             ELSE [tag |-> "Ok", sims |-> sort_by(similarities)]

(***************************************************************************)
(* comparison/diff.rs                                                      *)
(***************************************************************************)
SIMILARITY_THRESHOLD == 70

Negatives ==
    << <<"n", "o", "t">>,
       <<"a", "g", "a", "i", "n", "s", "t">>,
       <<"o", "p", "p", "o", "s", "e">>,
       <<"r", "e", "j", "e", "c", "t">>,
       <<"d", "e", "n", "y">> >>

is_negative_case_sensitive(s) ==
    \E k \in 1..Len(Negatives) : contains(s, Negatives[k])

\* negatives.iter().any(|n| s.to_lowercase().contains(n))
is_negative(s) ==
    \E k \in 1..Len(Negatives) : contains(to_lowercase(s), Negatives[k])

compare_stances_any_negative(a, b) ==
    IF is_negative(a) \/ is_negative(b) THEN "Tension" ELSE "Agreement"

compare_stances_nuance(a, b) ==
    IF is_negative(a) # is_negative(b) THEN "Tension"
    ELSE IF is_negative(a) THEN "Nuance"
    ELSE "Agreement"

compare_stances(a, b) ==
    LET a_negative == is_negative(a)
        b_negative == is_negative(b)
    IN  IF a_negative # b_negative THEN "Tension" ELSE "Agreement"

keyword_match_raw(theme, points) ==
    LET hits == {k \in 1..Len(points) : points[k].theme = theme}
    IN  IF hits = {} THEN <<>>
        ELSE <<CHOOSE k \in hits : \A h \in hits : k <= h>>

\* points.iter().find(|p| normalize_theme(&p.theme) == normalize_theme(theme)),
\* as the position of the point found
keyword_match(theme, points) ==
    LET hits == {k \in 1..Len(points) :
                    normalize_theme(points[k].theme) = normalize_theme(theme)}
    IN  IF hits = {} THEN <<>>
        ELSE <<CHOOSE k \in hits : \A h \in hits : k <= h>>

\* whether the call made by find_matching_point panics
matching_panics(emb, theme, points, fault) ==
    LET themes == [k \in 1..Len(points) |-> points[k].theme]
    IN  themes # <<>> /\ find_most_similar(emb, theme, themes, fault).tag = "Panic"

find_matching_point_keyword_first(emb, theme, points, fault) ==
    LET themes == [k \in 1..Len(points) |-> points[k].theme]
        r == find_most_similar(emb, theme, themes, fault)
    IN  IF keyword_match(theme, points) # <<>>
        THEN keyword_match(theme, points)
        ELSE IF /\ themes # <<>>
                /\ r.tag = "Ok"
                /\ r.sims # <<>>
                /\ Ge(r.sims[1].score, F(SIMILARITY_THRESHOLD))
             THEN <<r.sims[1].idx>>
             ELSE <<>>

find_matching_point_no_threshold(emb, theme, points, fault) ==
    LET themes == [k \in 1..Len(points) |-> points[k].theme]
        r == find_most_similar(emb, theme, themes, fault)
    IN  IF themes # <<>> /\ r.tag = "Ok" /\ r.sims # <<>>
        THEN <<r.sims[1].idx>>
        ELSE keyword_match(theme, points)

find_matching_point_no_fallback(emb, theme, points, fault) ==
    LET themes == [k \in 1..Len(points) |-> points[k].theme]
        r == find_most_similar(emb, theme, themes, fault)
    IN  IF themes # <<>> /\ r.tag = "Err"
        THEN <<>>
        ELSE IF /\ themes # <<>>
                /\ r.tag = "Ok"
                /\ r.sims # <<>>
                /\ Ge(r.sims[1].score, F(SIMILARITY_THRESHOLD))
             THEN <<r.sims[1].idx>>
             ELSE keyword_match(theme, points)

\* Option<&WorldviewPoint> as the position of the referenced point in
\* `points`: a reference into the slice is that position.
find_matching_point(emb, theme, points, fault) ==
    LET themes == [k \in 1..Len(points) |-> points[k].theme]
        r == find_most_similar(emb, theme, themes, fault)
    IN  IF /\ themes # <<>>
           /\ r.tag = "Ok"
           /\ r.sims # <<>>
           /\ Ge(r.sims[1].score, F(SIMILARITY_THRESHOLD))
        THEN <<r.sims[1].idx>>
        ELSE keyword_match(theme, points)

(***************************************************************************)
(* State                                                                   *)
(***************************************************************************)
VARIABLES
    mode,               \* which entry point this process exercises
    embedding,          \* the embedding model's text -> vector function
    EMBEDDER,           \* static EMBEDDER: OnceLock<TextEmbedding>
    modelInvoked,       \* history: try_new or embed has been called
    \* diff_worldviews(a, b)
    wvA, wvB,           \* the arguments a and b
    pc,                 \* position of the caller
    idxA, idxB,         \* positions of the two loops
    agreements, tensions, unique_to_a, unique_to_b, matched_b_indices,
    result,             \* Option<WorldviewDiff>: the value returned
    matchOf,            \* history: per A point, the B position matched (0: none)
    uniqueIdx,          \* history: B positions pushed to unique_to_b
    anyOk,              \* history: some find_most_similar call returned Ok
    svc,                \* history: outcome of the latest find_most_similar call
    argA, argB,         \* history: a and b as they were when the call was made
    \* find_most_similar(query, candidates) called directly
    query, candidates, rankResult,
    \* get_embedder() called by concurrent threads
    tpc, local, returned, callsLeft, loads, installed, handedOut,
    \* find_blindspots(target, comparisons)
    target, comparisons,
    bsI, bsJ,           \* positions of the two loops
    blindspots,         \* HashMap<String, Blindspot> as a function on its keys
    bsResult,           \* Option<Vec<Blindspot>>: the value returned
    \* generate_movement(worldviews, title)
    worldviews,
    mvI, mvJ,           \* positions of the loops over worldviews
    convergences, mv_tensions, unique_voices,
    movement,           \* Option<Movement>: the value returned
    pairsRun,           \* history: the pairs (i, j) diffed, which of their
                        \* find_most_similar calls met no fault, and the
                        \* WorldviewDiff each call returned
    \* the worldview store: per slug, the content of its worldview.json
    store,
    \* cmd_ingest(file, json)
    content,            \* the text read from the file or stdin
    parsed,             \* Option<Result<Worldview>>: what parse_extraction returned
    cmdResult,          \* Option<Result<()>>: what cmd_ingest returned
    \* the TUI
    app,                \* the App model
    lastMsg,            \* history: the message the latest update handled
    lastLoad,           \* history: outcome and slug of its load_worldview call
    loadedFor           \* history: the slug selected_worldview was loaded for

serviceVars == <<embedding, EMBEDDER, modelInvoked>>

diffVars ==
    <<wvA, wvB, idxA, idxB, agreements, tensions, unique_to_a, unique_to_b,
      matched_b_indices, result, matchOf, uniqueIdx, anyOk, svc, argA, argB>>

rankVars == <<query, candidates, rankResult>>

threadVars == <<tpc, local, returned, callsLeft, loads, installed, handedOut>>

blindVars == <<target, comparisons, bsI, bsJ, blindspots, bsResult>>

moveVars ==
    <<worldviews, mvI, mvJ, convergences, mv_tensions, unique_voices, movement,
      pairsRun>>

ingestVars == <<content, parsed, cmdResult>>

tuiVars == <<app, lastMsg, lastLoad, loadedFor>>

appVars == <<store, ingestVars, tuiVars>>

vars ==
    <<mode, pc, serviceVars, diffVars, rankVars, threadVars, blindVars, moveVars,
      appVars>>

Threads == 1..NThreads

InitService ==
    /\ embedding \in EmbeddingModels
    /\ EMBEDDER = <<>>
    /\ modelInvoked = FALSE

InitDiffLocals ==
    /\ idxA = 1
    /\ idxB = 1
    /\ agreements = <<>>
    /\ tensions = <<>>
    /\ unique_to_a = <<>>
    /\ unique_to_b = <<>>
    /\ matched_b_indices = {}
    /\ result = <<>>
    /\ matchOf = <<>>
    /\ uniqueIdx = <<>>
    /\ anyOk = FALSE
    /\ svc = "NoCall"
    /\ argA = wvA
    /\ argB = wvB

NoDiff ==
    /\ wvA = [subject |-> "Alice", points |-> <<>>]
    /\ wvB = [subject |-> "Bob", points |-> <<>>]
    /\ InitDiffLocals

NoRank ==
    /\ query = ThemeAi
    /\ candidates = <<>>
    /\ rankResult = <<>>

NoThreads ==
    /\ tpc = [t \in Threads |-> "idle"]
    /\ local = [t \in Threads |-> <<>>]
    /\ returned = [t \in Threads |-> <<>>]
    /\ callsLeft = [t \in Threads |-> 0]
    /\ loads = [t \in Threads |-> 0]
    /\ installed = <<>>
    /\ handedOut = {}

\* the service as seen by an entry point that never calls it
NoService ==
    /\ embedding = Embedding(VX, VX, VY)
    /\ EMBEDDER = <<>>
    /\ modelInvoked = FALSE

NoBlind ==
    /\ target = [subject |-> "Alice", points |-> <<>>]
    /\ comparisons = <<>>
    /\ bsI = 1
    /\ bsJ = 1
    /\ blindspots = <<>>
    /\ bsResult = <<>>

NoMove ==
    /\ worldviews = <<>>
    /\ mvI = 1
    /\ mvJ = 2
    /\ convergences = <<>>
    /\ mv_tensions = <<>>
    /\ unique_voices = <<>>
    /\ movement = <<>>
    /\ pairsRun = <<>>

\* the store, cmd_ingest and the TUI as seen by an entry point that
\* uses none of them
NoIngest ==
    /\ content = Malformed
    /\ parsed = <<>>
    /\ cmdResult = <<>>

NoTui ==
    /\ app = [screen |-> [tag |-> "Home", slug |-> ""],
              worldview_list |-> [items |-> <<>>, cursor |-> 0],
              detail_viewport |-> [content |-> <<>>, scrolled |-> FALSE],
              worldviews |-> <<>>,
              selected_worldview |-> <<>>]
    /\ lastMsg = <<>>
    /\ lastLoad = <<>>
    /\ loadedFor = <<>>

NoApp ==
    /\ store = EmptyStore
    /\ NoIngest
    /\ NoTui

(***************************************************************************)
(* diff_worldviews(a, b), one step per loop iteration                      *)
(***************************************************************************)
InitDiff ==
    /\ mode = "diff"
    /\ pc = "match"
    /\ InitService
    /\ wvA \in Worldview("Alice")
    /\ wvB \in Worldview("Bob")
    /\ InitDiffLocals
    /\ NoRank
    /\ NoThreads
    /\ NoBlind
    /\ NoMove
    /\ NoApp

\* b.points.iter().position(|p| std::ptr::eq(p, point_b)): the position of
\* the very element the reference points at
position_ptr_eq(points, ref) ==
    IF ref \in 1..Len(points) THEN <<ref>> ELSE <<>>

\* the body of `for point_a in &a.points`, given the Option m returned by
\* find_matching_point; st carries the four accumulators
loop_body_once_per_b(st, point_a, m, points_b) ==
    IF m # <<>> /\ m[1] \notin st.matched_b_indices
    THEN LET point_b == points_b[m[1]]
             alignment == compare_stances(point_a.stance, point_b.stance)
             comparison ==
                 [theme |-> point_a.theme, point_a |-> point_a,
                  point_b |-> point_b, alignment |-> alignment]
         IN  [st EXCEPT
                !.matched_b_indices = @ \cup {m[1]},
                !.agreements = IF alignment = "Tension" THEN @ ELSE Append(@, comparison),
                !.tensions = IF alignment = "Tension" THEN Append(@, comparison) ELSE @]
    ELSE IF m # <<>> THEN st
    ELSE [st EXCEPT !.unique_to_a = Append(@, point_a)]

loop_body_second_match_unique(st, point_a, m, points_b) ==
    IF m # <<>> /\ m[1] \notin st.matched_b_indices
    THEN LET point_b == points_b[m[1]]
             alignment == compare_stances(point_a.stance, point_b.stance)
             comparison ==
                 [theme |-> point_a.theme, point_a |-> point_a,
                  point_b |-> point_b, alignment |-> alignment]
         IN  [st EXCEPT
                !.matched_b_indices = @ \cup {m[1]},
                !.agreements = IF alignment = "Tension" THEN @ ELSE Append(@, comparison),
                !.tensions = IF alignment = "Tension" THEN Append(@, comparison) ELSE @]
    ELSE [st EXCEPT !.unique_to_a = Append(@, point_a)]

loop_body_tracks_agreements_only(st, point_a, m, points_b) ==
    IF m # <<>>
    THEN LET point_b == points_b[m[1]]
             alignment == compare_stances(point_a.stance, point_b.stance)
             comparison ==
                 [theme |-> point_a.theme, point_a |-> point_a,
                  point_b |-> point_b, alignment |-> alignment]
         IN  IF alignment = "Tension"
             THEN [st EXCEPT !.tensions = Append(@, comparison)]
             ELSE [st EXCEPT !.matched_b_indices = @ \cup {m[1]},
                             !.agreements = Append(@, comparison)]
    ELSE [st EXCEPT !.unique_to_a = Append(@, point_a)]

loop_body(st, point_a, m, points_b) ==
    IF m # <<>>
    THEN LET point_b == points_b[m[1]]
             pos == position_ptr_eq(points_b, m[1])
             alignment == compare_stances(point_a.stance, point_b.stance)
             comparison ==
                 [theme |-> point_a.theme,
                  point_a |-> point_a,
                  point_b |-> point_b,
                  alignment |-> alignment]
         IN  [st EXCEPT
                !.matched_b_indices = IF pos # <<>> THEN @ \cup {pos[1]} ELSE @,
                !.agreements =
                    IF alignment \in {"Agreement", "Nuance"} THEN Append(@, comparison) ELSE @,
                !.tensions =
                    IF alignment = "Tension" THEN Append(@, comparison) ELSE @]
    ELSE [st EXCEPT !.unique_to_a = Append(@, point_a)]

\* for point_a in &a.points { ... }: one iteration, the service call included
MatchStep ==
    /\ mode = "diff"
    /\ pc = "match"
    /\ idxA <= Len(wvA.points)
    /\ LET point_a == wvA.points[idxA]
           called == wvB.points # <<>>
       IN  \E fault \in (IF called THEN Faults(EMBEDDER) ELSE {"none"}) :
             /\ EMBEDDER' = IF called THEN get_embedder_cell(EMBEDDER, fault) ELSE EMBEDDER
             /\ modelInvoked' = (modelInvoked \/ called)
             /\ anyOk' = (anyOk \/ (called /\ fault = "none"))
             /\ svc' = IF ~called THEN "NoCall"
                        ELSE IF fault # "none" THEN "Err"
                        ELSE IF matching_panics(embedding, point_a.theme, wvB.points, fault)
                             THEN "Panic"
                             ELSE "Ok"
             /\ IF matching_panics(embedding, point_a.theme, wvB.points, fault)
                THEN /\ pc' = "panicked"
                     /\ UNCHANGED <<idxA, agreements, tensions, unique_to_a,
                                    matched_b_indices, matchOf>>
                ELSE LET m == find_matching_point(embedding, point_a.theme, wvB.points, fault)
                         st == loop_body(
                                 [agreements |-> agreements,
                                  tensions |-> tensions,
                                  unique_to_a |-> unique_to_a,
                                  matched_b_indices |-> matched_b_indices],
                                 point_a, m, wvB.points)
                     IN  /\ pc' = "match"
                         /\ idxA' = idxA + 1
                         /\ agreements' = st.agreements
                         /\ tensions' = st.tensions
                         /\ unique_to_a' = st.unique_to_a
                         /\ matched_b_indices' = st.matched_b_indices
                         /\ matchOf' = Append(matchOf, IF m # <<>> THEN m[1] ELSE 0)
    /\ UNCHANGED <<mode, embedding, wvA, wvB, idxB, unique_to_b, result, uniqueIdx,
                   argA, argB>>
    /\ UNCHANGED <<appVars, rankVars, threadVars, blindVars, moveVars>>

\* the first loop is over: go on to the loop over b.points
MatchDone ==
    /\ mode = "diff"
    /\ pc = "match"
    /\ idxA > Len(wvA.points)
    /\ pc' = "unique_b"
    /\ UNCHANGED <<mode, appVars, serviceVars, diffVars, rankVars, threadVars, blindVars,
                   moveVars>>

clone_aliases(points, k) == [ref |-> k]

\* points[k].clone(): a WorldviewPoint of its own, equal to the point cloned
clone(points, k) == points[k]

\* for (idx, point_b) in b.points.iter().enumerate() { ... }: one iteration
UniqueBStep ==
    /\ mode = "diff"
    /\ pc = "unique_b"
    /\ idxB <= Len(wvB.points)
    /\ IF idxB \notin matched_b_indices
       THEN /\ unique_to_b' = Append(unique_to_b, clone(wvB.points, idxB))
            /\ uniqueIdx' = Append(uniqueIdx, idxB)
       ELSE UNCHANGED <<unique_to_b, uniqueIdx>>
    /\ idxB' = idxB + 1
    /\ UNCHANGED <<mode, pc, appVars, serviceVars, wvA, wvB, idxA, agreements, tensions,
                   unique_to_a, matched_b_indices, result, matchOf, anyOk, svc,
                   argA, argB>>
    /\ UNCHANGED <<appVars, rankVars, threadVars, blindVars, moveVars>>

total_of_unmatched(na, nt, nua, nub) == nt + nua + nub

\* usize sum of the four lengths
total_of(na, nt, nua, nub) == na + nt + nua + nub

similarity_of_empty_is_one(na, total) == IF total > 0 THEN <<na, total>> ELSE <<1, 1>>

\* the f64 quotient as an exact fraction <<numerator, denominator>>;
\* 0.0 is <<0, 1>>
similarity_of(na, total) == IF total > 0 THEN <<na, total>> ELSE <<0, 1>>

\* total, similarity and the WorldviewDiff returned
Finish ==
    /\ mode = "diff"
    /\ pc = "unique_b"
    /\ idxB > Len(wvB.points)
    /\ LET total == total_of(Len(agreements), Len(tensions),
                             Len(unique_to_a), Len(unique_to_b))
           similarity == similarity_of(Len(agreements), total)
       IN  result' = << [subject_a |-> wvA.subject,
                         subject_b |-> wvB.subject,
                         agreements |-> agreements,
                         tensions |-> tensions,
                         unique_to_a |-> unique_to_a,
                         unique_to_b |-> unique_to_b,
                         similarity_score |-> similarity] >>
    /\ pc' = "done"
    /\ UNCHANGED <<mode, appVars, serviceVars, wvA, wvB, idxA, idxB, agreements, tensions,
                   unique_to_a, unique_to_b, matched_b_indices, matchOf,
                   uniqueIdx, anyOk, svc, argA, argB>>
    /\ UNCHANGED <<appVars, rankVars, threadVars, blindVars, moveVars>>

NextDiff == MatchStep \/ MatchDone \/ UniqueBStep \/ Finish

Spec == InitDiff /\ [][NextDiff]_vars

(***************************************************************************)
(* find_most_similar(query, candidates) called directly                    *)
(***************************************************************************)
InitRank ==
    /\ mode = "rank"
    /\ pc = "call"
    /\ InitService
    /\ NoDiff
    /\ query \in ThemeSet
    /\ candidates \in SeqsUpTo(ThemeSet, MaxCands)
    /\ rankResult = <<>>
    /\ NoThreads
    /\ NoBlind
    /\ NoMove
    /\ NoApp

\* the whole call: embed_text(query)?, embed_texts(candidates)?, the scores
\* and the sort.  embed_text runs first, whatever the candidates are.
FindMostSimilar ==
    /\ mode = "rank"
    /\ pc = "call"
    /\ \E fault \in Faults(EMBEDDER) :
         LET r == find_most_similar(embedding, query, candidates, fault)
         IN  /\ EMBEDDER' = get_embedder_cell(EMBEDDER, fault)
             /\ modelInvoked' = TRUE
             /\ IF r.tag = "Panic"
                THEN /\ pc' = "panicked"
                     /\ UNCHANGED rankResult
                ELSE /\ pc' = "returned"
                     /\ rankResult' = <<r>>
    /\ UNCHANGED <<mode, embedding, appVars, diffVars, query, candidates, threadVars,
                   blindVars, moveVars>>

NextRank == FindMostSimilar

SpecRank == InitRank /\ [][NextRank]_vars

(***************************************************************************)
(* get_embedder() called by concurrent threads                             *)
(***************************************************************************)
InitThreads ==
    /\ mode = "threads"
    /\ pc = "threads"
    /\ InitService
    /\ NoDiff
    /\ NoRank
    /\ NoBlind
    /\ NoMove
    /\ NoApp
    /\ tpc = [t \in Threads |-> "idle"]
    /\ local = [t \in Threads |-> <<>>]
    /\ returned = [t \in Threads |-> <<>>]
    /\ callsLeft = [t \in Threads |-> MaxCalls]
    /\ loads = [t \in Threads |-> 0]
    /\ installed = <<>>
    /\ handedOut = {}

once_set_overwrites(cell, value) == <<value>>

\* OnceLock::set: stores the value only into an empty cell
once_set(cell, value) == IF cell = <<>> THEN <<value>> ELSE cell

early_return_never(cell) == FALSE

\* if let Some(embedder) = EMBEDDER.get(): the early return is taken
early_return(cell) == cell # <<>>

\* a thread enters get_embedder
Call(t) ==
    /\ mode = "threads"
    /\ tpc[t] = "idle"
    /\ callsLeft[t] > 0
    /\ callsLeft' = [callsLeft EXCEPT ![t] = @ - 1]
    /\ tpc' = [tpc EXCEPT ![t] = "get"]
    /\ UNCHANGED <<mode, pc, appVars, serviceVars, diffVars, rankVars, blindVars, moveVars, local, returned,
                   loads, installed, handedOut>>

\* if let Some(embedder) = EMBEDDER.get() { return Ok(embedder); }
Get(t) ==
    /\ mode = "threads"
    /\ tpc[t] = "get"
    /\ IF early_return(EMBEDDER)
       THEN /\ returned' = [returned EXCEPT ![t] = <<"Ok", EMBEDDER[1]>>]
            /\ handedOut' = handedOut \cup {EMBEDDER[1]}
            /\ tpc' = [tpc EXCEPT ![t] = "idle"]
       ELSE /\ tpc' = [tpc EXCEPT ![t] = "try_new"]
            /\ UNCHANGED <<returned, handedOut>>
    /\ UNCHANGED <<mode, pc, appVars, serviceVars, diffVars, rankVars, blindVars, moveVars, local, callsLeft,
                   loads, installed>>

\* TextEmbedding::try_new(options)? succeeds: a new instance, owned by t
TryNewOk(t) ==
    /\ mode = "threads"
    /\ tpc[t] = "try_new"
    /\ local' = [local EXCEPT ![t] = <<<<t, loads[t] + 1>>>>]
    /\ loads' = [loads EXCEPT ![t] = @ + 1]
    /\ modelInvoked' = TRUE
    /\ tpc' = [tpc EXCEPT ![t] = "set"]
    /\ UNCHANGED <<mode, pc, embedding, EMBEDDER, appVars, diffVars, rankVars, blindVars, moveVars, returned,
                   callsLeft, installed, handedOut>>

\* TextEmbedding::try_new(options)? fails: get_embedder returns the error
TryNewErr(t) ==
    /\ mode = "threads"
    /\ tpc[t] = "try_new"
    /\ returned' = [returned EXCEPT ![t] = <<"Err">>]
    /\ modelInvoked' = TRUE
    /\ tpc' = [tpc EXCEPT ![t] = "idle"]
    /\ UNCHANGED <<mode, pc, embedding, EMBEDDER, appVars, diffVars, rankVars, blindVars, moveVars, local,
                   callsLeft, loads, installed, handedOut>>

\* let _ = EMBEDDER.set(embedder); the value is moved into the cell, or
\* handed back and dropped when the cell is already set
Set(t) ==
    /\ mode = "threads"
    /\ tpc[t] = "set"
    /\ EMBEDDER' = once_set(EMBEDDER, local[t][1])
    /\ installed' = IF EMBEDDER' # EMBEDDER THEN Append(installed, EMBEDDER'[1]) ELSE installed
    /\ local' = [local EXCEPT ![t] = <<>>]
    /\ tpc' = [tpc EXCEPT ![t] = "unwrap"]
    /\ UNCHANGED <<mode, pc, embedding, modelInvoked, appVars, diffVars, rankVars, blindVars, moveVars,
                   returned, callsLeft, loads, handedOut>>

\* Ok(EMBEDDER.get().unwrap())
Unwrap(t) ==
    /\ mode = "threads"
    /\ tpc[t] = "unwrap"
    /\ returned' = [returned EXCEPT ![t] = <<"Ok", EMBEDDER[1]>>]
    /\ handedOut' = handedOut \cup {EMBEDDER[1]}
    /\ tpc' = [tpc EXCEPT ![t] = "idle"]
    /\ UNCHANGED <<mode, pc, appVars, serviceVars, diffVars, rankVars, blindVars, moveVars, local, callsLeft,
                   loads, installed>>

NextThreads ==
    \E t \in Threads :
        Call(t) \/ Get(t) \/ TryNewOk(t) \/ TryNewErr(t) \/ Set(t) \/ Unwrap(t)

SpecThreads == InitThreads /\ [][NextThreads]_vars

(***************************************************************************)
(* comparison/blindspots.rs: find_blindspots(target, comparisons), one     *)
(* step per point of the compared worldviews                               *)
(***************************************************************************)
\* the subjects of the compared worldviews, in call order
OtherSubjects == <<"Bob", "Carol">>

\* every choice of comparisons: a prefix of the other subjects' worldviews,
\* or the target itself in first place
ComparisonLists(tgt) ==
    {<<>>}
    \cup {<<b>> : b \in Worldview(OtherSubjects[1]) \cup {tgt}}
    \cup {<<b, c>> : b \in Worldview(OtherSubjects[1]) \cup {tgt},
                     c \in Worldview(OtherSubjects[2])}

target_themes_raw(tgt) == {tgt.points[k].theme : k \in 1..Len(tgt.points)}

\* target.points.iter().map(|p| normalize_theme(&p.theme)).collect::<HashSet>()
target_themes(tgt) ==
    {normalize_theme(tgt.points[k].theme) : k \in 1..Len(tgt.points)}

HashMap_seeded == <<[key |-> ThemeTax, val |-> [subject |-> "Alice",
                                                 missing_theme |-> ThemeTax,
                                                 addressed_by |-> <<>>,
                                                 examples |-> <<>>]]>>

\* HashMap::new(): the map is a sequence of [key, val] entries, one per key
HashMap_new == <<>>

contains_key(map, key) == \E k \in 1..Len(map) : map[k].key = key

or_insert_with_replaces(map, key, default) ==
    IF contains_key(map, key)
    THEN [k \in 1..Len(map) |->
            IF map[k].key = key THEN [key |-> key, val |-> default] ELSE map[k]]
    ELSE Append(map, [key |-> key, val |-> default])

\* blindspots.entry(key).or_insert_with(default): the map with the key present
or_insert_with(map, key, default) ==
    IF contains_key(map, key) THEN map
    ELSE Append(map, [key |-> key, val |-> default])

\* the body of the inner loop for one point of one compared worldview
blind_visit(map, themes, tgt, other, point) ==
    LET norm == normalize_theme(point.theme)
    IN  IF norm \notin themes
        THEN LET with == or_insert_with(map, norm,
                            [subject |-> tgt.subject,
                             missing_theme |-> point.theme,
                             addressed_by |-> <<>>,
                             examples |-> <<>>])
             IN  [k \in 1..Len(with) |->
                    IF with[k].key = norm
                    THEN [with[k] EXCEPT
                            !.val.addressed_by = Append(@, other.subject),
                            !.val.examples = Append(@, point)]
                    ELSE with[k]]
        ELSE map

\* blindspots.into_values().collect(): the values in an order the HashMap
\* does not promise; every order is possible
into_values(map) ==
    LET n == Len(map)
        Perms == {f \in [1..n -> 1..n] : \A a, b \in 1..n : f[a] = f[b] => a = b}
    IN  {[k \in 1..n |-> map[f[k]].val] : f \in Perms}

InitBlind ==
    /\ mode = "blind"
    /\ pc = "scan"
    /\ NoService
    /\ NoDiff
    /\ NoRank
    /\ NoThreads
    /\ NoMove
    /\ NoApp
    /\ target \in Worldview("Alice")
    /\ comparisons \in ComparisonLists(target)
    /\ bsI = 1
    /\ bsJ = 1
    /\ blindspots = HashMap_new
    /\ bsResult = <<>>

\* for point in &other.points { ... }: one iteration
BlindVisit ==
    /\ mode = "blind"
    /\ pc = "scan"
    /\ bsI <= Len(comparisons)
    /\ bsJ <= Len(comparisons[bsI].points)
    /\ blindspots' = blind_visit(blindspots, target_themes(target), target,
                                 comparisons[bsI], comparisons[bsI].points[bsJ])
    /\ bsJ' = bsJ + 1
    /\ UNCHANGED <<mode, pc, appVars, serviceVars, diffVars, rankVars, threadVars, moveVars,
                   target, comparisons, bsI, bsResult>>

\* for other in comparisons { ... }: the inner loop is over, next worldview
BlindNextOther ==
    /\ mode = "blind"
    /\ pc = "scan"
    /\ bsI <= Len(comparisons)
    /\ bsJ > Len(comparisons[bsI].points)
    /\ bsI' = bsI + 1
    /\ bsJ' = 1
    /\ UNCHANGED <<mode, pc, appVars, serviceVars, diffVars, rankVars, threadVars, moveVars,
                   target, comparisons, blindspots, bsResult>>

\* the value returned
BlindCollect ==
    /\ mode = "blind"
    /\ pc = "scan"
    /\ bsI > Len(comparisons)
    /\ \E vals \in into_values(blindspots) : bsResult' = <<vals>>
    /\ pc' = "done"
    /\ UNCHANGED <<mode, appVars, serviceVars, diffVars, rankVars, threadVars, moveVars,
                   target, comparisons, bsI, bsJ, blindspots>>

NextBlind == BlindVisit \/ BlindNextOther \/ BlindCollect

SpecBlind == InitBlind /\ [][NextBlind]_vars

(***************************************************************************)
(* diff_worldviews(a, b) as one call, for the callers that use its result  *)
(***************************************************************************)
FaultKinds == {"init", "embed_query", "embed_cands", "none"}

\* the faults the n successive find_most_similar calls of one
\* diff_worldviews call can meet, starting from the given cell: try_new can
\* fail only while no earlier call has installed the model
FaultSeqs(cell, n) ==
    {f \in [1..n -> FaultKinds] :
        \A k \in 1..n :
            f[k] = "init" => (cell = <<>> /\ \A j \in 1..(k - 1) : f[j] = "init")}

\* the number of find_most_similar calls diff_worldviews(a, b) makes
calls_of(a, b) == IF b.points = <<>> THEN 0 ELSE Len(a.points)

fault_at(faults, k) == IF k \in DOMAIN faults THEN faults[k] ELSE "none"

\* the EMBEDDER cell after the calls
RECURSIVE cell_after(_, _, _)
cell_after(cell, faults, k) ==
    IF k = 0 THEN cell
    ELSE get_embedder_cell(cell_after(cell, faults, k - 1), faults[k])

\* the first loop of diff_worldviews over a.points[1..k]
RECURSIVE diff_fold(_, _, _, _, _)
diff_fold(emb, a, b, faults, k) ==
    IF k = 0
    THEN [agreements |-> <<>>, tensions |-> <<>>, unique_to_a |-> <<>>,
          matched_b_indices |-> {}]
    ELSE loop_body(diff_fold(emb, a, b, faults, k - 1), a.points[k],
                   find_matching_point(emb, a.points[k].theme, b.points,
                                       fault_at(faults, k)),
                   b.points)

\* the second loop: the points of b whose position was never matched
RECURSIVE unmatched_of(_, _, _)
unmatched_of(points_b, matched, k) ==
    IF k = 0 THEN <<>>
    ELSE IF k \notin matched
         THEN Append(unmatched_of(points_b, matched, k - 1), clone(points_b, k))
         ELSE unmatched_of(points_b, matched, k - 1)

\* some find_most_similar call of diff_worldviews(a, b) panics
diff_panics(emb, a, b, faults) ==
    \E k \in 1..Len(a.points) :
        matching_panics(emb, a.points[k].theme, b.points, fault_at(faults, k))

\* the WorldviewDiff returned
diff_worldviews(emb, a, b, faults) ==
    LET st == diff_fold(emb, a, b, faults, Len(a.points))
        ub == unmatched_of(b.points, st.matched_b_indices, Len(b.points))
        total == total_of(Len(st.agreements), Len(st.tensions),
                          Len(st.unique_to_a), Len(ub))
    IN  [subject_a |-> a.subject,
         subject_b |-> b.subject,
         agreements |-> st.agreements,
         tensions |-> st.tensions,
         unique_to_a |-> st.unique_to_a,
         unique_to_b |-> ub,
         similarity_score |-> similarity_of(Len(st.agreements), total)]

\* one call of diff_worldviews by a caller: the diff returned, or nothing
\* when the call panics
diff_call(emb, a, b, faults) ==
    IF diff_panics(emb, a, b, faults) THEN <<>>
    ELSE <<diff_worldviews(emb, a, b, faults)>>

(***************************************************************************)
(* synthesis/movement.rs: generate_movement(worldviews, None), one step    *)
(* per pair (i, j), one per worldview's unique points, one for the result. *)
(* generated_at (the clock) is left out.                                   *)
(***************************************************************************)
MoveSubjects == <<"Alice", "Bob", "Carol">>

MovementPoint == WorldviewPoint \cup {Point(ThemeWar, StanceYes)}

\* the points handed to one generate_movement call, over all worldviews
MaxTotalPoints == MaxPoints + 1

RECURSIVE TotalLen(_, _)
TotalLen(lists, k) == IF k = 0 THEN 0 ELSE TotalLen(lists, k - 1) + Len(lists[k])

\* the slices of worldviews drawn: the first k subjects, each with up to
\* MaxPoints points
WorldviewListsOver(Points) ==
    LET PointLists == SeqsUpTo(Points, MaxPoints)
        Lists == UNION {{pl \in [1..k -> PointLists] : TotalLen(pl, k) <= MaxTotalPoints} :
                            k \in 0..Len(MoveSubjects)}
    IN  {[i \in 1..Len(pl) |-> [subject |-> MoveSubjects[i], points |-> pl[i]]] :
            pl \in Lists}

WorldviewLists == WorldviewListsOver(MovementPoint)

\* points whose themes differ in case only, in a trailing blank as well, or
\* altogether
MovementCasePoint ==
    { Point(ThemeAi, StanceYes),
      Point(ThemeAiCaps, StanceNot),
      Point(ThemeAiUpper, StanceNot),
      Point(ThemeTax, StanceYes) }

\* the embedding models drawn: one that ignores case and blanks and keeps
\* other themes apart, one that relates different themes, one with a NaN
MoveModels ==
    { Embedding(VX, VX, VY),
      Embedding(VX, V8, V6),
      Embedding(VX, VecNaN, VY) }

VoicePosition(subject, point) == [subject |-> subject, stance |-> point.stance]

pair_item_voices_swapped(word, wi, wj, cmp) ==
    [theme |-> cmp.theme,
     voices |-> <<VoicePosition(wj.subject, cmp.point_b),
                  VoicePosition(wi.subject, cmp.point_a)>>,
     synthesis |-> <<word, wi.subject, wj.subject, cmp.theme>>]

\* the SectionItem pushed for one agreement or tension of diff(i, j)
pair_item(word, wi, wj, cmp) ==
    [theme |-> cmp.theme,
     voices |-> <<VoicePosition(wi.subject, cmp.point_a),
                  VoicePosition(wj.subject, cmp.point_b)>>,
     synthesis |-> <<word, wi.subject, wj.subject, cmp.theme>>]

pair_items(word, wi, wj, cmps) ==
    [k \in 1..Len(cmps) |-> pair_item(word, wi, wj, cmps[k])]

is_unique_case_sensitive(ws, i, point) ==
    \A idx \in (1..Len(ws)) \ {i} :
        ~ \E k \in 1..Len(ws[idx].points) : ws[idx].points[k].theme = point.theme

is_unique_among_all(ws, i, point) ==
    \A idx \in 1..Len(ws) :
        ~ \E k \in 1..Len(ws[idx].points) :
            to_lowercase(ws[idx].points[k].theme) = to_lowercase(point.theme)

\* no point of any other worldview has the same lowercased theme
is_unique(ws, i, point) ==
    \A idx \in (1..Len(ws)) \ {i} :
        ~ \E k \in 1..Len(ws[idx].points) :
            to_lowercase(ws[idx].points[k].theme) = to_lowercase(point.theme)

\* the items pushed by `for point in &worldviews[i].points` over points[1..k]
RECURSIVE unique_items(_, _, _)
unique_items(ws, i, k) ==
    IF k = 0 THEN <<>>
    ELSE LET point == ws[i].points[k]
             rest == unique_items(ws, i, k - 1)
         IN  IF is_unique(ws, i, point)
             THEN Append(rest,
                         [theme |-> point.theme,
                          voices |-> <<VoicePosition(ws[i].subject, point)>>,
                          synthesis |-> <<"Unique to", ws[i].subject, point.theme>>])
             ELSE rest

sections_of_swapped(conv, tens, uniq) ==
    << [name |-> "Tensions", content |-> tens],
       [name |-> "Convergences", content |-> conv],
       [name |-> "Unique Voices", content |-> uniq] >>

sections_of(conv, tens, uniq) ==
    << [name |-> "Convergences", content |-> conv],
       [name |-> "Tensions", content |-> tens],
       [name |-> "Unique Voices", content |-> uniq] >>

\* format!("Synthesis of {} worldviews: {} convergences, {} tensions, {}
\* unique positions.", ...): the literal pieces and the four numbers
summary_of(subjects, sections) ==
    << "Synthesis of ", Len(subjects), " worldviews: ",
       Len(sections[1].content), " convergences, ",
       Len(sections[2].content), " tensions, ",
       Len(sections[3].content), " unique positions." >>

InitMove ==
    /\ mode = "move"
    /\ pc = "pairs"
    /\ embedding \in MoveModels
    /\ EMBEDDER = <<>>
    /\ modelInvoked = FALSE
    /\ NoDiff
    /\ NoRank
    /\ NoThreads
    /\ NoBlind
    /\ NoApp
    /\ worldviews \in WorldviewLists
    /\ mvI = 1
    /\ mvJ = 2
    /\ convergences = <<>>
    /\ mv_tensions = <<>>
    /\ unique_voices = <<>>
    /\ movement = <<>>
    /\ pairsRun = <<>>

InitMoveCase ==
    /\ mode = "move"
    /\ pc = "pairs"
    /\ embedding \in MoveModels
    /\ EMBEDDER = <<>>
    /\ modelInvoked = FALSE
    /\ NoDiff
    /\ NoRank
    /\ NoThreads
    /\ NoBlind
    /\ NoApp
    /\ worldviews \in WorldviewListsOver(MovementCasePoint)
    /\ mvI = 1
    /\ mvJ = 2
    /\ convergences = <<>>
    /\ mv_tensions = <<>>
    /\ unique_voices = <<>>
    /\ movement = <<>>
    /\ pairsRun = <<>>

\* for j in (i + 1)..worldviews.len() { ... }: one iteration, the whole
\* diff_worldviews call included
MovePair ==
    /\ mode = "move"
    /\ pc = "pairs"
    /\ mvI <= Len(worldviews)
    /\ mvJ <= Len(worldviews)
    /\ LET wi == worldviews[mvI]
           wj == worldviews[mvJ]
           n == calls_of(wi, wj)
       IN  \E faults \in FaultSeqs(EMBEDDER, n) :
           \E ret \in {diff_call(embedding, wi, wj, faults)} :
             /\ EMBEDDER' = cell_after(EMBEDDER, faults, n)
             /\ modelInvoked' = (modelInvoked \/ n > 0)
             /\ pairsRun' = Append(pairsRun,
                                   [i |-> mvI, j |-> mvJ,
                                    ok |-> [k \in 1..n |-> faults[k] = "none"],
                                    diff |-> ret])
             /\ IF ret = <<>>
                THEN /\ pc' = "panicked"
                     /\ UNCHANGED <<mvJ, convergences, mv_tensions>>
                ELSE LET diff == ret[1]
                     IN  /\ pc' = "pairs"
                         /\ mvJ' = mvJ + 1
                         /\ convergences' =
                                convergences \o pair_items("Both", wi, wj, diff.agreements)
                         /\ mv_tensions' =
                                mv_tensions \o pair_items("Tension between", wi, wj, diff.tensions)
    /\ UNCHANGED <<mode, embedding, appVars, diffVars, rankVars, threadVars, blindVars,
                   worldviews, mvI, unique_voices, movement>>

\* the pairs of worldview i are done: its unique points, then the next i
MoveUnique ==
    /\ mode = "move"
    /\ pc = "pairs"
    /\ mvI <= Len(worldviews)
    /\ mvJ > Len(worldviews)
    /\ unique_voices' =
           unique_voices \o unique_items(worldviews, mvI, Len(worldviews[mvI].points))
    /\ mvI' = mvI + 1
    /\ mvJ' = mvI + 2
    /\ UNCHANGED <<mode, pc, appVars, serviceVars, diffVars, rankVars, threadVars, blindVars,
                   worldviews, convergences, mv_tensions, movement, pairsRun>>

\* sections, summary and the Movement returned
MoveFinish ==
    /\ mode = "move"
    /\ pc = "pairs"
    /\ mvI > Len(worldviews)
    /\ LET subjects == [k \in 1..Len(worldviews) |-> worldviews[k].subject]
           sections == sections_of(convergences, mv_tensions, unique_voices)
       IN  movement' = << [title |-> "Synthesis Movement",
                           subjects |-> subjects,
                           sections |-> sections,
                           summary |-> summary_of(subjects, sections)] >>
    /\ pc' = "done"
    /\ UNCHANGED <<mode, appVars, serviceVars, diffVars, rankVars, threadVars, blindVars,
                   worldviews, mvI, mvJ, convergences, mv_tensions, unique_voices,
                   pairsRun>>

NextMove == MovePair \/ MoveUnique \/ MoveFinish

SpecMove == InitMove /\ [][NextMove]_vars

SpecMoveCase == InitMoveCase /\ [][NextMove]_vars

(***************************************************************************)
(* diff_worldviews on two one-point worldviews about the same theme, over  *)
(* stances with each marker, a marker inside a word and in capitals, the   *)
(* beginning of a marker, and no marker                                    *)
(***************************************************************************)
StanceSamples ==
    { StanceYes,
      StanceNot,
      <<"k", "N", "O", "T", "s">>,
      <<"a", "g", "a", "i", "n", "s", "t">>,
      <<"o", "p", "p", "o", "s", "e">>,
      <<"r", "e", "j", "e", "c", "t">>,
      <<"d", "e", "n", "y">>,
      <<"n", "o">>,
      <<>> }

OnePoint(subject) ==
    [subject : {subject},
     points : {<<Point(t, st)>> : t \in {ThemeAi, ThemeAiUpper}, st \in StanceSamples}]

InitStance ==
    /\ mode = "diff"
    /\ pc = "match"
    /\ InitService
    /\ wvA \in OnePoint("Alice")
    /\ wvB \in OnePoint("Bob")
    /\ InitDiffLocals
    /\ NoRank
    /\ NoThreads
    /\ NoBlind
    /\ NoMove
    /\ NoApp

SpecStance == InitStance /\ [][NextDiff]_vars

(***************************************************************************)
(* The three entry points together with their caller, who owns the         *)
(* worldviews it lends to diff_worldviews and may rewrite them once the     *)
(* call has returned                                                       *)
(***************************************************************************)
StanceEdited == <<"e", "d", "i", "t">>

InitFrame ==
    \/ InitDiff /\ embedding = Embedding(VX, V8, V6)
    \/ InitBlind
    \/ InitMove /\ embedding = Embedding(VX, V8, V6)

\* the borrow of a and b ended with the call: the caller rewrites one
\* stance of one of the two worldviews
CallerMutates ==
    /\ mode = "diff"
    /\ pc = "done"
    /\ wvA = argA
    /\ wvB = argB
    /\ \/ /\ \E k \in 1..Len(wvA.points) :
                wvA' = [wvA EXCEPT !.points[k].stance = StanceEdited]
          /\ UNCHANGED wvB
       \/ /\ \E k \in 1..Len(wvB.points) :
                wvB' = [wvB EXCEPT !.points[k].stance = StanceEdited]
          /\ UNCHANGED wvA
    /\ UNCHANGED <<mode, pc, appVars, serviceVars, idxA, idxB, agreements, tensions,
                   unique_to_a, unique_to_b, matched_b_indices, result, matchOf,
                   uniqueIdx, anyOk, svc, argA, argB>>
    /\ UNCHANGED <<appVars, rankVars, threadVars, blindVars, moveVars>>

NextFrame == NextDiff \/ NextBlind \/ NextMove \/ CallerMutates

SpecFrame == InitFrame /\ [][NextFrame]_vars

(***************************************************************************)
(* JSON documents and the worldview store (serde_json, storage/json_store) *)
(* A document is what a file or stdin holds.  serde_json::from_str turns   *)
(* it into a Worldview or fails; to_string_pretty turns a Worldview back   *)
(* into a document.  Confidences are hundredths, as the scores are.        *)
(***************************************************************************)
\* x < y and x > y on floats: false when either side is NaN
Lt(x, y) == ~x.nan /\ ~y.nan /\ x.v < y.v

Gt(x, y) == ~x.nan /\ ~y.nan /\ x.v > y.v

\* the JSON values drawn for the "confidence" member: numbers below, at
\* and above the ends of [0.0, 1.0], a number no f64 holds (1e999), null
\* and a string
ConfidenceSamples == {0 - 1, 0, 50, 100, 101}

JsonValue ==
    {[t |-> "number", v |-> c] : c \in ConfidenceSamples}
        \cup {[t |-> k, v |-> 0] : k \in {"number_out_of_range", "null", "string"}}

JsonPoint == [theme : {ThemeAi}, stance : {StanceYes}, confidence : JsonValue]

JsonObject(slug, subject, points) ==
    [kind |-> "object", slug |-> slug, subject |-> subject, points |-> points]

\* serde_json::from_str::<Worldview>: None (the empty sequence) on a syntax
\* error, on a confidence that is not a number, and on a number out of the
\* range of f64; a Worldview otherwise.  No other check is made.
from_str(doc) ==
    IF doc.kind # "object"
           \/ \E k \in 1..Len(doc.points) : doc.points[k].confidence.t # "number"
    THEN <<>>
    ELSE <<[slug |-> doc.slug, subject |-> doc.subject,
            points |-> [k \in 1..Len(doc.points) |->
                          [theme |-> doc.points[k].theme,
                           stance |-> doc.points[k].stance,
                           confidence |-> F(doc.points[k].confidence.v)]]]>>

\* serde_json::to_string_pretty(worldview): a NaN is written as null
to_string_pretty(wv) ==
    JsonObject(wv.slug, wv.subject,
               [k \in 1..Len(wv.points) |->
                  [theme |-> wv.points[k].theme,
                   stance |-> wv.points[k].stance,
                   confidence |->
                     IF wv.points[k].confidence.nan
                     THEN [t |-> "null", v |-> 0]
                     ELSE [t |-> "number", v |-> wv.points[k].confidence.v]]])

\* json_store::load_worldview(slug): NotFound when the file is missing, a
\* serde error when it does not parse; the content is not validated
load_worldview(st, slug) ==
    IF st[slug] = <<>> THEN <<>> ELSE from_str(st[slug][1])

(***************************************************************************)
(* extraction/ingest.rs and cmd_ingest (main.rs)                           *)
(***************************************************************************)
validate_worldview_range_only(wv) ==
    IF \E k \in 1..Len(wv.points) :
           Lt(wv.points[k].confidence, F(0)) \/ Gt(wv.points[k].confidence, F(100))
    THEN <<"Invalid confidence">>
    ELSE <<>>

\* validate_worldview: the error, or the empty sequence for Ok(())
validate_worldview(wv) ==
    IF wv.points = <<>>
    THEN <<"Worldview has no points">>
    ELSE IF \E k \in 1..Len(wv.points) :
                Lt(wv.points[k].confidence, F(0)) \/ Gt(wv.points[k].confidence, F(100))
         THEN <<"Invalid confidence">>
         ELSE <<>>

\* parse_extraction(json_str)
parse_extraction(json_str) ==
    LET worldview == from_str(json_str)
    IN  IF worldview = <<>>
        THEN [tag |-> "Err", wv |-> <<>>]
        ELSE IF validate_worldview(worldview[1]) # <<>>
             THEN [tag |-> "Err", wv |-> <<>>]
             ELSE [tag |-> "Ok", wv |-> worldview]

\* the documents handed to cmd_ingest
IngestDocs ==
    {Malformed}
        \cup {JsonObject("alice", "Alice", ps) : ps \in SeqsUpTo(JsonPoint, MaxPoints)}

\* a worldview saved for the same slug by an earlier run
PriorDoc ==
    JsonObject("alice", "Prior",
               <<[theme |-> ThemeTax, stance |-> StanceYes,
                  confidence |-> [t |-> "number", v |-> 50]]>>)

InitIngest ==
    /\ mode = "ingest"
    /\ pc = "read"
    /\ NoService
    /\ NoDiff
    /\ NoRank
    /\ NoThreads
    /\ NoBlind
    /\ NoMove
    /\ NoTui
    /\ content \in IngestDocs
    /\ parsed = <<>>
    /\ cmdResult = <<>>
    /\ store \in {EmptyStore, [EmptyStore EXCEPT !["alice"] = <<PriorDoc>>]}

\* io::stdin().read_to_string(&mut buf)? / std::fs::read_to_string(file)?
IngestRead ==
    /\ mode = "ingest"
    /\ pc = "read"
    /\ pc' = "parse"
    /\ UNCHANGED <<mode, serviceVars, diffVars, rankVars, threadVars, blindVars, moveVars,
                   store, ingestVars, tuiVars>>

\* the read fails: cmd_ingest returns the io error
IngestReadErr ==
    /\ mode = "ingest"
    /\ pc = "read"
    /\ cmdResult' = <<"Err">>
    /\ pc' = "done"
    /\ UNCHANGED <<mode, serviceVars, diffVars, rankVars, threadVars, blindVars, moveVars,
                   store, content, parsed, tuiVars>>

\* let worldview = extraction::ingest::parse_extraction(&content)?;
IngestParse ==
    /\ mode = "ingest"
    /\ pc = "parse"
    /\ \E ret \in {parse_extraction(content)} :
          /\ parsed' = <<ret>>
          /\ IF ret.tag = "Err"
             THEN cmdResult' = <<"Err">> /\ pc' = "done"
             ELSE cmdResult' = cmdResult /\ pc' = "save"
    /\ UNCHANGED <<mode, serviceVars, diffVars, rankVars, threadVars, blindVars, moveVars,
                   store, content, tuiVars>>

\* storage::json_store::save_worldview(&worldview)? writes the file, then
\* the summary is printed and cmd_ingest returns Ok(())
IngestSave ==
    /\ mode = "ingest"
    /\ pc = "save"
    /\ store' = [store EXCEPT ![parsed[1].wv[1].slug] =
                    <<to_string_pretty(parsed[1].wv[1])>>]
    /\ cmdResult' = <<"Ok">>
    /\ pc' = "done"
    /\ UNCHANGED <<mode, serviceVars, diffVars, rankVars, threadVars, blindVars, moveVars,
                   content, parsed, tuiVars>>

\* save_worldview fails (create_dir_all or fs::write): the file is as it
\* was, or was truncated by the write that failed
IngestSaveErr ==
    /\ mode = "ingest"
    /\ pc = "save"
    /\ \E f \in {store[parsed[1].wv[1].slug], <<Malformed>>} :
          store' = [store EXCEPT ![parsed[1].wv[1].slug] = f]
    /\ cmdResult' = <<"Err">>
    /\ pc' = "done"
    /\ UNCHANGED <<mode, serviceVars, diffVars, rankVars, threadVars, blindVars, moveVars,
                   content, parsed, tuiVars>>

NextIngest == IngestRead \/ IngestReadErr \/ IngestParse \/ IngestSave \/ IngestSaveErr

SpecIngest == InitIngest /\ [][NextIngest]_vars

(***************************************************************************)
(* tui/app.rs: the App model and its update handler.  The list and the     *)
(* viewport are bubbles widgets (external): the list is its items and a    *)
(* cursor (0: no item selected, as for an empty or filtered-out list),     *)
(* the viewport its content and whether it has been scrolled.              *)
(***************************************************************************)
Messages == {"CtrlC", "q", "l", "L", "Enter", "Esc", "Up", "Down", "Rune", "NonKey"}

ScreenHome == [tag |-> "Home", slug |-> ""]

ScreenWorldviewList == [tag |-> "WorldviewList", slug |-> ""]

ScreenWorldviewDetail(slug) == [tag |-> "WorldviewDetail", slug |-> slug]

\* the files a slug's directory may hold: none, one that does not parse,
\* or a worldview whose own slug member is any slug
TuiFiles == {<<>>, <<Malformed>>} \cup {<<JsonObject(x, x, <<>>)>> : x \in Slugs}

\* the orders in which fs::read_dir may list the store; the empty listing
\* is the unwrap_or_default() of a failed read
DirOrders ==
    {<<>>} \cup {o \in [1..Cardinality(Slugs) -> Slugs] :
                    \A i, j \in DOMAIN o : i # j => o[i] # o[j]}

\* load_worldview_list(): the slugs whose worldview.json exists and loads
load_worldview_list(st, order) ==
    LET exists(s) == st[s] # <<>>
        loads_ok(s) == load_worldview(st, s) # <<>>
        slugs == SelectSeq(SelectSeq(order, exists), loads_ok)
    IN  [k \in 1..Len(slugs) |->
           [slug |-> slugs[k], subject |-> load_worldview(st, slugs[k])[1].subject]]

\* App::new()
App_new(st, order) ==
    LET worldviews_ == load_worldview_list(st, order)
    IN  [screen |-> ScreenHome,
         worldview_list |-> [items |-> worldviews_,
                             cursor |-> IF worldviews_ = <<>> THEN 0 ELSE 1],
         detail_viewport |-> [content |-> <<>>, scrolled |-> FALSE],
         worldviews |-> worldviews_,
         selected_worldview |-> <<>>]

\* List::selected_item()
selected_item(list) ==
    IF list.cursor = 0 THEN <<>> ELSE <<list.items[list.cursor]>>

\* List::update(msg): the lists the widget may be in afterwards.  The
\* arrows move the cursor by one; a rune may page, or filter the items,
\* and leave the cursor on any item or on none.
list_update(list, msg) ==
    IF list.items = <<>> \/ msg = "NonKey" THEN {list}
    ELSE IF msg = "Down"
         THEN {[list EXCEPT !.cursor = IF @ < Len(list.items) THEN @ + 1 ELSE @]}
    ELSE IF msg = "Up"
         THEN {[list EXCEPT !.cursor = IF @ > 1 THEN @ - 1 ELSE @]}
    ELSE {[list EXCEPT !.cursor = c] : c \in 0..Len(list.items)}

\* Viewport::update(&msg)
viewport_update(vp, msg) ==
    IF msg = "Down" /\ vp.content # <<>> THEN [vp EXCEPT !.scrolled = TRUE]
    ELSE IF msg = "Up" THEN [vp EXCEPT !.scrolled = FALSE]
    ELSE vp

\* format_worldview_detail(&wv): the subject, the number of points and a
\* line per point with its confidence as a percentage
format_worldview_detail(wv) ==
    [subject |-> wv.subject,
     points |-> Len(wv.points),
     lines |-> [k \in 1..Len(wv.points) |->
                  <<k, wv.points[k].theme, wv.points[k].confidence, wv.points[k].stance>>]]

on_esc_to_home(screen) ==
    IF screen.tag = "Home"
    THEN [screen |-> screen, quit |-> TRUE]
    ELSE [screen |-> ScreenHome, quit |-> FALSE]

\* KeyType::Esc => match &self.screen { .. }
on_esc(screen) ==
    IF screen.tag = "WorldviewDetail"
    THEN [screen |-> ScreenWorldviewList, quit |-> FALSE]
    ELSE IF screen.tag = "WorldviewList"
         THEN [screen |-> ScreenHome, quit |-> FALSE]
         ELSE [screen |-> screen, quit |-> TRUE]

Outcome(self, cmd, load) == [self |-> self, cmd |-> cmd, load |-> load]

\* App::update(&mut self, msg): the App afterwards, the command returned
\* and, when load_worldview was called, its outcome and the slug passed
update(self, msg, st) ==
    IF msg \in {"CtrlC", "q"}
    THEN {Outcome(self, "quit", <<>>)}
    ELSE IF msg \in {"l", "L"} /\ self.screen.tag = "Home"
    THEN {Outcome([self EXCEPT !.screen = ScreenWorldviewList], "none", <<>>)}
    ELSE IF msg = "Enter" /\ self.screen.tag = "WorldviewList"
    THEN LET item == selected_item(self.worldview_list)
         IN  IF item = <<>>
             THEN {Outcome(self, "none", <<>>)}
             ELSE LET slug == item[1].slug
                      wv == load_worldview(st, slug)
                  IN  IF wv # <<>>
                      THEN {Outcome([self EXCEPT
                                       !.detail_viewport.content =
                                           <<format_worldview_detail(wv[1])>>,
                                       !.selected_worldview = wv,
                                       !.screen = ScreenWorldviewDetail(slug)],
                                    "none", <<"Ok", slug>>)}
                      ELSE {Outcome(self, "none", <<"Err", slug>>)}
    ELSE IF msg = "Esc"
    THEN {Outcome([self EXCEPT !.screen = on_esc(@).screen],
                  IF on_esc(self.screen).quit THEN "quit" ELSE "none", <<>>)}
    ELSE IF self.screen.tag = "WorldviewList"
    THEN {Outcome([self EXCEPT !.worldview_list = l], "none", <<>>) :
            l \in list_update(self.worldview_list, msg)}
    ELSE IF self.screen.tag = "WorldviewDetail"
    THEN {Outcome([self EXCEPT !.detail_viewport = viewport_update(@, msg)], "none", <<>>)}
    ELSE {Outcome(self, "none", <<>>)}

InitTui ==
    /\ mode = "tui"
    /\ pc = "running"
    /\ NoService
    /\ NoDiff
    /\ NoRank
    /\ NoThreads
    /\ NoBlind
    /\ NoMove
    /\ NoIngest
    /\ store \in [Slugs -> TuiFiles]
    /\ \E order \in DirOrders : app = App_new(store, order)
    /\ lastMsg = <<>>
    /\ lastLoad = <<>>
    /\ loadedFor = <<>>

\* the program delivers a message to update; quit ends the program
Update(msg) ==
    /\ mode = "tui"
    /\ pc = "running"
    /\ \E ret \in update(app, msg, store) :
          /\ app' = ret.self
          /\ pc' = IF ret.cmd = "quit" THEN "quit" ELSE pc
          /\ lastLoad' = ret.load
          /\ loadedFor' = IF ret.load # <<>> /\ ret.load[1] = "Ok"
                          THEN <<ret.load[2]>> ELSE loadedFor
    /\ lastMsg' = <<msg>>
    /\ UNCHANGED <<mode, serviceVars, diffVars, rankVars, threadVars, blindVars, moveVars,
                   store, ingestVars>>

\* another process (wve ingest, the user) changes a file of the store
\* while the TUI runs
StoreChange ==
    /\ mode = "tui"
    /\ pc = "running"
    /\ \E s \in Slugs, f \in TuiFiles :
          /\ f # store[s]
          /\ store' = [store EXCEPT ![s] = f]
    /\ lastMsg' = <<>>
    /\ lastLoad' = <<>>
    /\ UNCHANGED <<mode, pc, serviceVars, diffVars, rankVars, threadVars, blindVars, moveVars,
                   ingestVars, app, loadedFor>>

NextTui == (\E msg \in Messages : Update(msg)) \/ StoreChange

SpecTui == InitTui /\ [][NextTui]_vars

(***************************************************************************)
(* Properties of diff_worldviews                                           *)
(***************************************************************************)
Returned == result # <<>>

Diff == result[1]

Count(s, x) == Cardinality({k \in 1..Len(s) : s[k] = x})

PointsA(cmps) == [k \in 1..Len(cmps) |-> cmps[k].point_a]

\* the elements of s at the positions in keep, in order
RECURSIVE SubSeqAt(_, _, _)
SubSeqAt(s, keep, k) ==
    IF k > Len(s) THEN <<>>
    ELSE IF k \in keep THEN <<s[k]>> \o SubSeqAt(s, keep, k + 1)
    ELSE SubSeqAt(s, keep, k + 1)

\* C1: whatever the similarity service did, a returned diff holds every
\* point of A in exactly one of agreements, tensions and unique_to_a: each
\* point value occurs in the three lists together as often as in A.points,
\* so the three lengths add up to |A.points|.
C1_PointsOfAPartitioned ==
    Returned =>
        /\ Len(Diff.agreements) + Len(Diff.tensions) + Len(Diff.unique_to_a)
               = Len(wvA.points)
        /\ \A p \in WorldviewPoint :
               Count(wvA.points, p)
                   = Count(PointsA(Diff.agreements), p)
                     + Count(PointsA(Diff.tensions), p)
                     + Count(Diff.unique_to_a, p)

C1_Witness ==
    /\ Returned
    /\ anyOk
    /\ Len(Diff.tensions) = 1
    /\ Len(Diff.unique_to_a) = 1

\* the first B point whose lowercased, trimmed theme equals the theme
FirstEqualTheme(theme, points) ==
    LET same(k) == trim(to_lowercase(points[k].theme)) = trim(to_lowercase(theme))
    IN  IF \E k \in 1..Len(points) : same(k)
        THEN CHOOSE k \in 1..Len(points) : same(k) /\ \A h \in 1..(k - 1) : ~same(h)
        ELSE 0

LexicalComparison(i) ==
    LET pa == wvA.points[i]
        pb == wvB.points[FirstEqualTheme(pa.theme, wvB.points)]
    IN  [theme |-> pa.theme, point_a |-> pa, point_b |-> pb,
         alignment |-> compare_stances(pa.stance, pb.stance)]

LexicalDiff ==
    LET na == Len(wvA.points)
        nb == Len(wvB.points)
        hit(i) == FirstEqualTheme(wvA.points[i].theme, wvB.points)
        cmps == [i \in 1..na |-> IF hit(i) # 0 THEN LexicalComparison(i) ELSE <<>>]
        agr == SubSeqAt(cmps, {i \in 1..na : hit(i) # 0 /\ cmps[i].alignment = "Agreement"}, 1)
        ten == SubSeqAt(cmps, {i \in 1..na : hit(i) # 0 /\ cmps[i].alignment = "Tension"}, 1)
        ua == SubSeqAt(wvA.points, {i \in 1..na : hit(i) = 0}, 1)
        ub == SubSeqAt(wvB.points, {j \in 1..nb : \A i \in 1..na : hit(i) # j}, 1)
        tot == Len(agr) + Len(ten) + Len(ua) + Len(ub)
    IN  [subject_a |-> wvA.subject, subject_b |-> wvB.subject,
         agreements |-> agr, tensions |-> ten,
         unique_to_a |-> ua, unique_to_b |-> ub,
         similarity_score |-> IF tot = 0 THEN <<0, 1>> ELSE <<Len(agr), tot>>]

\* C2: while every call to the similarity service has failed the comparator
\* has not aborted, and the diff it then returns is the one built by matching
\* each A point to the first B point with the same lowercased, trimmed theme.
C2_FailureFallsBackToLexical ==
    ~anyOk =>
        /\ pc # "panicked"
        /\ Returned => Diff = LexicalDiff

C2_Witness ==
    /\ Returned
    /\ ~anyOk
    /\ modelInvoked
    /\ Len(Diff.agreements) = 1
    /\ Len(Diff.unique_to_a) = 1
    /\ Len(Diff.unique_to_b) = 1

SelfCompare == wvA.points = wvB.points /\ Len(wvA.points) >= 1

AllAgreeWithSelf ==
    /\ Diff.unique_to_a = <<>>
    /\ Diff.unique_to_b = <<>>
    /\ Diff.tensions = <<>>
    /\ PointsA(Diff.agreements) = wvA.points
    /\ Diff.similarity_score[1] = Diff.similarity_score[2]

\* C3 as stated: a worldview compared with an identical copy of itself gives
\* all points as agreements, nothing unique, no tensions and score 1.0, also
\* when several points share a theme.
C3_SelfCompareAllAgree_AsStated ==
    (Returned /\ SelfCompare) => AllAgreeWithSelf

ScoreBetween(t, u) == cosine_similarity(embedding[t], embedding[u])

\* no two points of A have the same normalised theme, and the service never
\* scores another point's theme at or above the threshold unless strictly
\* below the point's own theme
SelfDistinguishable ==
    \A i, j \in 1..Len(wvA.points) :
        i # j =>
            LET ti == wvA.points[i].theme
                tj == wvA.points[j].theme
            IN  /\ normalize_theme(ti) # normalize_theme(tj)
                /\ \/ ~Ge(ScoreBetween(ti, tj), F(SIMILARITY_THRESHOLD))
                   \/ partial_cmp(ScoreBetween(ti, tj), ScoreBetween(ti, ti)) = <<"Less">>

\* C3 (amended): the same conclusion for every A whose points have pairwise
\* distinct normalised themes and whose themes the service tells apart.
C3_SelfCompareAllAgree ==
    (Returned /\ SelfCompare /\ SelfDistinguishable) => AllAgreeWithSelf

C3_Witness ==
    /\ Returned
    /\ SelfCompare
    /\ SelfDistinguishable
    /\ anyOk
    /\ Len(wvA.points) = 2
    /\ \E k \in 1..2 : wvA.points[k].stance = StanceNot

\* C4: the similarity_score of a returned diff lies in [0, 1].
C4_ScoreInUnitInterval ==
    Returned =>
        /\ Diff.similarity_score[2] > 0
        /\ 0 <= Diff.similarity_score[1]
        /\ Diff.similarity_score[1] <= Diff.similarity_score[2]

C4_Witness ==
    /\ Returned
    /\ Len(Diff.agreements) = 2
    /\ Len(Diff.unique_to_b) = 1

Denominator ==
    Len(Diff.agreements) + Len(Diff.tensions)
        + Len(Diff.unique_to_a) + Len(Diff.unique_to_b)

\* C5: similarity_score is |agreements| over the sum of the four list
\* lengths, and 0.0 when that sum is 0, which is exactly when neither
\* worldview has a point.
C5_ScoreIsAgreementShare ==
    Returned =>
        /\ (Denominator = 0) <=> (wvA.points = <<>> /\ wvB.points = <<>>)
        /\ IF Denominator = 0
           THEN Diff.similarity_score[1] = 0
           ELSE Diff.similarity_score[1] * Denominator
                    = Len(Diff.agreements) * Diff.similarity_score[2]

C5_Witness ==
    /\ Returned
    /\ wvA.points = <<>>
    /\ wvB.points = <<>>

PointsB(cmps) == [k \in 1..Len(cmps) |-> cmps[k].point_b]

MatchedPositions == {matchOf[i] : i \in 1..Len(matchOf)} \ {0}

\* C6: by position in B.points, every B point is either the point_b of a
\* comparison or listed exactly once in unique_to_b, never both and never
\* neither.  matchOf and uniqueIdx record the positions behind the copies
\* held in the diff.
C6_PointsOfBPartitioned ==
    Returned =>
        /\ Diff.unique_to_b = [k \in 1..Len(uniqueIdx) |-> wvB.points[uniqueIdx[k]]]
        /\ \A p \in WorldviewPoint :
               Count(PointsB(Diff.agreements), p) + Count(PointsB(Diff.tensions), p)
                   = Cardinality({i \in 1..Len(matchOf) :
                                     matchOf[i] # 0 /\ wvB.points[matchOf[i]] = p})
        /\ \A j \in 1..Len(wvB.points) :
               IF j \in MatchedPositions
               THEN Count(uniqueIdx, j) = 0
               ELSE Count(uniqueIdx, j) = 1

C6_Witness ==
    /\ Returned
    /\ Len(wvB.points) = 2
    /\ wvB.points[1] = wvB.points[2]
    /\ MatchedPositions = {1}
    /\ uniqueIdx = <<2>>

\* C21: no comparison produced by diff_worldviews carries the alignment
\* Nuance: agreements holds only Agreement, tensions only Tension, at every
\* point of the run and in the diff returned.
C21_NuanceNeverProduced ==
    mode = "diff" =>
        /\ \A n \in 1..Len(agreements) : agreements[n].alignment = "Agreement"
        /\ \A n \in 1..Len(tensions) : tensions[n].alignment = "Tension"
        /\ Returned =>
              /\ Diff.agreements = agreements
              /\ Diff.tensions = tensions

\* both stances of an agreeing pair are negated, the case a finer
\* classifier would set apart
C21_Witness ==
    /\ Returned
    /\ Len(Diff.agreements) = 1
    /\ is_negative(Diff.agreements[1].point_a.stance)
    /\ is_negative(Diff.agreements[1].point_b.stance)

\* the comparisons of the diff that pair point pa of A with point pb of B
PairCount(pa, pb) ==
    LET cmps == Diff.agreements \o Diff.tensions
    IN  Cardinality({n \in 1..Len(cmps) :
                        cmps[n].point_a = pa /\ cmps[n].point_b = pb})

\* C22: unique_to_b lists the unmatched points of B in B's order, none
\* twice; when several points of A match the same point of B, each of them
\* gets its own comparison with that B point as point_b and the B point is
\* not in unique_to_b.
C22_UniqueToBInOrderSharedMatchOnce ==
    Returned =>
        /\ \A k \in 1..(Len(uniqueIdx) - 1) : uniqueIdx[k] < uniqueIdx[k + 1]
        /\ {uniqueIdx[k] : k \in 1..Len(uniqueIdx)}
               = (1..Len(wvB.points)) \ MatchedPositions
        /\ Diff.unique_to_b = [k \in 1..Len(uniqueIdx) |-> wvB.points[uniqueIdx[k]]]
        /\ \A pa, pb \in WorldviewPoint :
               PairCount(pa, pb)
                   = Cardinality({i \in 1..Len(matchOf) :
                                     /\ matchOf[i] # 0
                                     /\ wvA.points[i] = pa
                                     /\ wvB.points[matchOf[i]] = pb})

\* two different points of A matched the first point of B; the second
\* point of B is the only unmatched one
C22_Witness ==
    /\ Returned
    /\ Len(wvA.points) = 2
    /\ wvA.points[1] # wvA.points[2]
    /\ matchOf = <<1, 1>>
    /\ Len(wvB.points) = 2
    /\ Diff.unique_to_b = <<wvB.points[2]>>
    /\ Len(Diff.agreements) + Len(Diff.tensions) = 2

\* the worldviews lent to the entry points
InputsOf == <<wvA, wvB, target, comparisons, worldviews>>

\* one of the three functions is running
InCall == pc \in {"match", "unique_b", "scan", "pairs"}

\* what a point held by the diff reads as now: the point itself, or, were
\* it a reference, the point of b it refers to
ReadB(e) == IF "ref" \in DOMAIN e THEN wvB.points[e.ref] ELSE e

\* the returned diff holds the points of a and b as they were at the call
DiffHoldsArgs ==
    LET cmps == Diff.agreements \o Diff.tensions
    IN  /\ \A n \in 1..Len(cmps) :
              \E i \in 1..Len(argA.points) :
                  /\ matchOf[i] # 0
                  /\ cmps[n].point_a = argA.points[i]
                  /\ cmps[n].point_b = argB.points[matchOf[i]]
        /\ Diff.unique_to_a = SubSeqAt(argA.points, {i \in 1..Len(argA.points) : matchOf[i] = 0}, 1)
        /\ [n \in 1..Len(Diff.unique_to_b) |-> ReadB(Diff.unique_to_b[n])]
               = [n \in 1..Len(uniqueIdx) |-> argB.points[uniqueIdx[n]]]

\* C17: while diff_worldviews, find_blindspots or generate_movement runs, the
\* input worldviews do not change, and every point of a returned
\* WorldviewDiff equals the input point as it was at the call, also after
\* the caller has changed an input worldview.
C17_InputsKeptAndDiffOwnsCopies ==
    /\ [][InCall => InputsOf' = InputsOf]_vars
    /\ [](Returned => DiffHoldsArgs)

\* b was changed after the return, at a point that the diff lists as
\* unique to b
C17_Witness ==
    /\ Returned
    /\ Len(uniqueIdx) >= 1
    /\ wvB.points[uniqueIdx[1]] # argB.points[uniqueIdx[1]]
    /\ Diff.unique_to_b[1] = argB.points[uniqueIdx[1]]

\* the latest iteration of the loop over a.points ran to its end
StepDone == mode = "diff" /\ pc # "panicked" /\ Len(matchOf) >= 1

LastStep == Len(matchOf)

LastTheme == wvA.points[LastStep].theme

\* the candidate a descending stable ranking puts first: the highest
\* score, and among equal scores the earliest point of B
TopRanked ==
    LET score(k) == ScoreBetween(LastTheme, wvB.points[k].theme)
    IN  CHOOSE k \in 1..Len(wvB.points) :
            \A j \in 1..Len(wvB.points) :
                j # k => \/ score(j).v < score(k).v
                         \/ (score(j).v = score(k).v /\ k < j)

TopScore == ScoreBetween(LastTheme, wvB.points[TopRanked].theme)

TopScoreReachesThreshold == ~TopScore.nan /\ TopScore.v >= 70

\* C18: when B is not empty, the service succeeds and the top-ranked score is
\* >= 0.7, the match is the top-ranked point of B, even when another point of
\* B has the query's normalised theme; when the top score is below 0.7 the
\* ranking plays no part and the match is the one the themes alone give.
C18_SemanticMatchIsTopRanked ==
    (StepDone /\ svc = "Ok" /\ wvB.points # <<>>) =>
        IF TopScoreReachesThreshold
        THEN matchOf[LastStep] = TopRanked
        ELSE matchOf[LastStep] = FirstEqualTheme(LastTheme, wvB.points)

\* the top-ranked point of B is the second one, although the first one has
\* the query's normalised theme
C18_Witness ==
    /\ StepDone
    /\ svc = "Ok"
    /\ Len(wvB.points) = 2
    /\ TopScoreReachesThreshold
    /\ TopRanked = 2
    /\ FirstEqualTheme(LastTheme, wvB.points) = 1
    /\ matchOf[LastStep] = 2

\* C19: when the service fails or its top-ranked score is below 0.7, the match
\* is the first point of B, in B's order, whose lowercased and trimmed theme
\* equals the lowercased and trimmed query theme; when B has none, there is
\* no match and the A point is pushed to unique_to_a.
C19_FallbackIsFirstEqualTheme ==
    ( /\ StepDone
      /\ \/ svc = "Err"
         \/ (svc = "Ok" /\ wvB.points # <<>> /\ ~TopScoreReachesThreshold) )
    => /\ matchOf[LastStep] = FirstEqualTheme(LastTheme, wvB.points)
       /\ matchOf[LastStep] = 0 =>
              /\ unique_to_a # <<>>
              /\ unique_to_a[Len(unique_to_a)] = wvA.points[LastStep]
       /\ Len(unique_to_a) = Cardinality({i \in 1..LastStep : matchOf[i] = 0})

\* the service failed; the first point of B differs from the query in case
\* and in a trailing blank, the second one is spelled like the query
C19_Witness ==
    /\ StepDone
    /\ svc = "Err"
    /\ LastTheme = ThemeAi
    /\ Len(wvB.points) = 2
    /\ wvB.points[1].theme = ThemeAiUpper
    /\ wvB.points[2].theme = ThemeAi
    /\ matchOf[LastStep] = 1

Markers == {"not", "against", "oppose", "reject", "deny"}

Letters(w) ==
    CASE w = "not" -> <<"n", "o", "t">>
      [] w = "against" -> <<"a", "g", "a", "i", "n", "s", "t">>
      [] w = "oppose" -> <<"o", "p", "p", "o", "s", "e">>
      [] w = "reject" -> <<"r", "e", "j", "e", "c", "t">>
      [] w = "deny" -> <<"d", "e", "n", "y">>

\* the stance holds one of the markers at some offset, case ignored
HasMarker(stance) ==
    \E w \in Markers :
        \E off \in 0..(Len(stance) - Len(Letters(w))) :
            \A i \in 1..Len(Letters(w)) :
                to_lowercase(<<stance[off + i]>>) = <<Letters(w)[i]>>

\* C20: a matched pair is a Tension exactly when one stance holds a marker
\* (not, against, oppose, reject, deny; case ignored, anywhere in the
\* stance) and the other holds none, and an Agreement otherwise.  For two
\* one-point worldviews with the same normalised theme where only B's stance
\* holds a marker, the diff has 1 tension, 0 agreements, empty unique lists
\* and similarity_score 0.0.
C20_TensionIffOneSideNegated ==
    Returned =>
        /\ \A n \in 1..Len(Diff.agreements) :
              LET c == Diff.agreements[n]
              IN  /\ c.alignment = "Agreement"
                  /\ HasMarker(c.point_a.stance) = HasMarker(c.point_b.stance)
        /\ \A n \in 1..Len(Diff.tensions) :
              LET c == Diff.tensions[n]
              IN  /\ c.alignment = "Tension"
                  /\ HasMarker(c.point_a.stance) # HasMarker(c.point_b.stance)
        /\ ( /\ Len(wvA.points) = 1
             /\ Len(wvB.points) = 1
             /\ trim(to_lowercase(wvA.points[1].theme))
                    = trim(to_lowercase(wvB.points[1].theme))
             /\ ~HasMarker(wvA.points[1].stance)
             /\ HasMarker(wvB.points[1].stance) )
           => /\ Len(Diff.tensions) = 1
              /\ Len(Diff.agreements) = 0
              /\ Diff.unique_to_a = <<>>
              /\ Diff.unique_to_b = <<>>
              /\ Diff.similarity_score = <<0, 1>>

\* B's stance holds NOT inside a word, A's stance only the beginning of a
\* marker
C20_Witness ==
    /\ Returned
    /\ wvA.points = <<Point(ThemeAi, <<"n", "o">>)>>
    /\ wvB.points = <<Point(ThemeAiUpper, <<"k", "N", "O", "T", "s">>)>>
    /\ Len(Diff.tensions) = 1
    /\ Diff.similarity_score = <<0, 1>>

(***************************************************************************)
(* Properties of get_embedder under concurrent callers                     *)
(***************************************************************************)
TotalLoads == SumSeq([t \in Threads |-> loads[t]])

\* C7 as stated: across every interleaving the model constructor runs
\* (successfully) no more than once.
C7_ConstructedAtMostOnce_AsStated == TotalLoads <= 1

\* C7 (amended): the cell receives at most one instance, and each thread
\* constructs at most one; threads racing on first use may each construct.
C7_InstalledAtMostOnce ==
    /\ Len(installed) <= 1
    /\ \A t \in Threads : loads[t] <= 1

C7_Witness ==
    /\ TotalLoads = 2
    /\ Len(installed) = 1
    /\ \A t \in Threads : tpc[t] = "idle" /\ callsLeft[t] = 0

\* C8: every instance handed to a caller is the one instance the cell holds;
\* the cell's content was installed once and is the first one installed.
C8_AllCallersSameInstance ==
    /\ Cardinality(handedOut) <= 1
    /\ \A x \in handedOut : EMBEDDER = <<x>>
    /\ EMBEDDER # <<>> => (installed # <<>> /\ EMBEDDER = <<installed[1]>>)

C8_Witness ==
    /\ \A t \in Threads : loads[t] = 1 /\ tpc[t] = "idle" /\ Len(returned[t]) = 2
    /\ Cardinality(handedOut) = 1

\* C29: a failed construction is not cached. The call that fails at try_new
\* returns the error and writes nothing to the cell; a call that finds the
\* cell empty goes on to construct; and once some call has returned Ok, a
\* call that reads the cell afterwards returns Ok without constructing.
C29_FailureNotCached ==
    [][\A t \in Threads :
          /\ (tpc[t] = "try_new" /\ tpc'[t] = "idle")
                => (returned'[t] = <<"Err">> /\ EMBEDDER' = EMBEDDER)
          /\ (tpc[t] = "get" /\ tpc'[t] # "get" /\ EMBEDDER = <<>>)
                => tpc'[t] = "try_new"
          /\ (tpc[t] = "get" /\ tpc'[t] # "get" /\ handedOut # {})
                => (tpc'[t] = "idle" /\ returned'[t][1] = "Ok" /\ loads'[t] = loads[t])
      ]_vars

\* a thread whose earlier call failed has constructed the model in its
\* next call, and another thread has since been handed the instance
C29_Witness ==
    \E t, u \in Threads :
        /\ t # u
        /\ returned[t] = <<"Err">>
        /\ tpc[t] = "unwrap"
        /\ EMBEDDER = <<<<t, 1>>>>
        /\ Len(returned[u]) = 2 /\ returned[u][1] = "Ok"

(***************************************************************************)
(* Properties of find_most_similar                                         *)
(***************************************************************************)
Ranked == rankResult # <<>> /\ rankResult[1].tag = "Ok"

Sims == rankResult[1].sims

\* C9: an Ok result has one (index, score) entry per candidate, each with
\* that candidate's score, in descending order of score, entries of equal
\* score in ascending order of index.
C9_RankedDescendingStable ==
    Ranked =>
        /\ Len(Sims) = Len(candidates)
        /\ {Sims[k].idx : k \in 1..Len(Sims)} = 1..Len(candidates)
        /\ \A k \in 1..Len(Sims) :
               Sims[k].score = ScoreBetween(query, candidates[Sims[k].idx])
        /\ \A k, h \in 1..Len(Sims) :
               k < h =>
                   /\ ~Sims[k].score.nan /\ ~Sims[h].score.nan
                   /\ Sims[k].score.v >= Sims[h].score.v
                   /\ Sims[k].score.v = Sims[h].score.v => Sims[k].idx < Sims[h].idx

C9_Witness ==
    /\ Ranked
    /\ Len(Sims) = 2
    /\ Sims[1].score = Sims[2].score
    /\ Sims[1].score.v > 0

\* C10: with no candidates, find_most_similar returns an empty Ok result
\* and never reaches the embedding model.
C10_EmptyCandidatesSkipModel ==
    (candidates = <<>> /\ pc # "call") =>
        /\ ~modelInvoked
        /\ pc = "returned" => rankResult = <<[tag |-> "Ok", sims |-> <<>>]>>

\* some candidate's similarity to the query is NaN
NaNScorePresent ==
    \E k \in 1..Len(candidates) : ScoreBetween(query, candidates[k]).nan

\* C11: when a similarity score is NaN, find_most_similar neither aborts nor
\* returns scores: it returns an error, and no Ok result ever carries a NaN
\* score.
C11_NaNRejectedAsError ==
    /\ pc # "panicked"
    /\ ~(Ranked /\ NaNScorePresent)

(***************************************************************************)
(* Properties of find_blindspots                                           *)
(***************************************************************************)
BlindReturned == mode = "blind" /\ bsResult # <<>>

\* C12: find_blindspots(target, others) is empty whenever others is empty,
\* whatever the target is.
C12_NoOthersNoBlindspots ==
    (BlindReturned /\ comparisons = <<>>) => bsResult[1] = <<>>

C12_Witness ==
    /\ BlindReturned
    /\ comparisons = <<>>
    /\ Len(target.points) = MaxPoints
    /\ bsResult[1] = <<>>

\* every point of every compared worldview has a lowercased, trimmed theme
\* that some point of the target has too
AllThemesShared ==
    \A i \in 1..Len(comparisons) : \A j \in 1..Len(comparisons[i].points) :
        \E k \in 1..Len(target.points) :
            trim(to_lowercase(comparisons[i].points[j].theme))
                = trim(to_lowercase(target.points[k].theme))

\* C13: when every point of every compared worldview has a normalised theme
\* that occurs in the target, the result is empty whatever the stances are;
\* in particular find_blindspots(W, [W]) is empty.
C13_SharedThemesNoBlindspots ==
    /\ (BlindReturned /\ AllThemesShared) => bsResult[1] = <<>>
    /\ (BlindReturned /\ comparisons = <<target>>) => bsResult[1] = <<>>

\* W against [W, other], where the other worldview spells the shared theme
\* differently and takes the opposite stance
C13_Witness ==
    /\ BlindReturned
    /\ Len(comparisons) = 2
    /\ comparisons[1] = target
    /\ target.points = <<Point(ThemeAi, StanceYes)>>
    /\ comparisons[2].points = <<Point(ThemeAiUpper, StanceNot)>>
    /\ bsResult[1] = <<>>

\* the positions <<i, j>> of the compared points whose lowercased, trimmed
\* theme is th, in iteration order, from position <<i, j>> on
RECURSIVE OccurrencesFrom(_, _, _)
OccurrencesFrom(th, i, j) ==
    IF i > Len(comparisons) THEN <<>>
    ELSE IF j > Len(comparisons[i].points) THEN OccurrencesFrom(th, i + 1, 1)
    ELSE IF trim(to_lowercase(comparisons[i].points[j].theme)) = th
         THEN <<(<<i, j>>)>> \o OccurrencesFrom(th, i, j + 1)
         ELSE OccurrencesFrom(th, i, j + 1)

\* the lowercased, trimmed themes that occur in a compared worldview and not
\* in the target
MissingThemes ==
    UNION {{trim(to_lowercase(comparisons[i].points[j].theme)) :
                j \in 1..Len(comparisons[i].points)} : i \in 1..Len(comparisons)}
    \ {trim(to_lowercase(target.points[k].theme)) : k \in 1..Len(target.points)}

\* C25: the result holds exactly one Blindspot per distinct lowercased,
\* trimmed theme that occurs in a compared worldview and not in the target;
\* missing_theme is the label of the first occurrence as written, and
\* addressed_by and examples hold one entry per occurring point in iteration
\* order, a subject being repeated for each of its points on the theme.
C25_OneBlindspotPerMissingTheme ==
    BlindReturned =>
        LET res == bsResult[1]
            norm(b) == trim(to_lowercase(b.missing_theme))
        IN  /\ Len(res) = Cardinality(MissingThemes)
            /\ {norm(res[n]) : n \in 1..Len(res)} = MissingThemes
            /\ \A n \in 1..Len(res) :
                  LET occ == OccurrencesFrom(norm(res[n]), 1, 1)
                  IN  /\ res[n].subject = target.subject
                      /\ res[n].missing_theme
                             = comparisons[occ[1][1]].points[occ[1][2]].theme
                      /\ Len(res[n].examples) = Len(res[n].addressed_by)
                      /\ res[n].addressed_by
                             = [k \in 1..Len(occ) |-> comparisons[occ[k][1]].subject]
                      /\ res[n].examples
                             = [k \in 1..Len(occ) |->
                                   comparisons[occ[k][1]].points[occ[k][2]]]

\* two missing themes; one is first met as "AI " and then twice more, twice
\* in the first compared worldview
C25_Witness ==
    /\ BlindReturned
    /\ Len(bsResult[1]) = 2
    /\ \E n \in 1..2 :
          /\ bsResult[1][n].missing_theme = ThemeAiUpper
          /\ bsResult[1][n].addressed_by = <<"Bob", "Bob", "Carol">>
          /\ bsResult[1][n].examples[2].theme = ThemeAi

(***************************************************************************)
(* Properties of generate_movement                                         *)
(***************************************************************************)
MoveReturned == mode = "move" /\ movement # <<>>

Sections == movement[1].sections

SectionNames == [k \in 1..Len(Sections) |-> Sections[k].name]

SectionSize(k) == Len(Sections[k].content)

\* C16: the Movement returned has exactly the three sections Convergences,
\* Tensions, Unique Voices in this order, and its summary reports the
\* number of input worldviews and the actual length of each section.
C16_ThreeSectionsAndSummaryCounts ==
    MoveReturned =>
        /\ SectionNames = <<"Convergences", "Tensions", "Unique Voices">>
        /\ Sections[1].content = convergences
        /\ Sections[2].content = mv_tensions
        /\ Sections[3].content = unique_voices
        /\ movement[1].summary =
               << "Synthesis of ", Len(worldviews), " worldviews: ",
                  SectionSize(1), " convergences, ",
                  SectionSize(2), " tensions, ",
                  SectionSize(3), " unique positions." >>

\* three worldviews, and sections that are not all of the same size
C16_Witness ==
    /\ MoveReturned
    /\ Len(worldviews) = 3
    /\ SectionSize(1) = 1
    /\ SectionSize(2) = 2
    /\ SectionSize(3) = 1

\* C14: for a single worldview W the Convergences and Tensions sections are
\* empty and Unique Voices holds one item per point of W, in W's order,
\* also when several points of W share a theme.
C14_SingleWorldviewAllUnique ==
    (MoveReturned /\ Len(worldviews) = 1) =>
        LET W == worldviews[1]
        IN  /\ Sections[1].content = <<>>
            /\ Sections[2].content = <<>>
            /\ SectionSize(3) = Len(W.points)
            /\ \A k \in 1..Len(W.points) :
                   /\ Sections[3].content[k].theme = W.points[k].theme
                   /\ Sections[3].content[k].voices =
                          <<[subject |-> W.subject, stance |-> W.points[k].stance]>>

\* a single worldview with two points on the same theme
C14_Witness ==
    /\ MoveReturned
    /\ Len(worldviews) = 1
    /\ Len(worldviews[1].points) = 2
    /\ worldviews[1].points[1].theme = worldviews[1].points[2].theme
    /\ SectionSize(3) = 2

ThreeSinglePoints ==
    /\ Len(worldviews) = 3
    /\ \A i \in 1..3 : Len(worldviews[i].points) = 1

ThemeOf(i) == worldviews[i].points[1].theme

NoConvergenceThreeUnique ==
    /\ SectionSize(1) = 0
    /\ SectionSize(2) = 0
    /\ SectionSize(3) = 3
    /\ movement[1].summary[4] = 0
    /\ movement[1].summary[6] = 0
    /\ movement[1].summary[8] = 3

\* C15 as stated: three one-point worldviews whose themes differ pairwise when
\* case is ignored give three Unique Voices items, no convergence and no
\* tension, whatever the similarity service reports.
C15_UnsharedThemesAllUnique_AsStated ==
    ( /\ MoveReturned
      /\ ThreeSinglePoints
      /\ \A i, j \in 1..3 :
            i # j => to_lowercase(ThemeOf(i)) # to_lowercase(ThemeOf(j)) )
    => NoConvergenceThreeUnique

\* every diffed pair met a failing service or a score that is not >= 0.7
NoSemanticMatch ==
    \A n \in 1..Len(pairsRun) :
        LET e == pairsRun[n]
        IN  e.ok[1] =>
              ~Ge(ScoreBetween(ThemeOf(e.i), ThemeOf(e.j)), F(SIMILARITY_THRESHOLD))

\* C15: three one-point worldviews whose themes differ pairwise after
\* lowercasing and trimming, and for which the similarity service fails or
\* reports no score >= 0.7, give three Unique Voices items, no convergence
\* and no tension, and summary counts 0, 0 and 3.
C15_UnsharedThemesAllUnique ==
    ( /\ MoveReturned
      /\ ThreeSinglePoints
      /\ \A i, j \in 1..3 :
            i # j => trim(to_lowercase(ThemeOf(i))) # trim(to_lowercase(ThemeOf(j)))
      /\ NoSemanticMatch )
    => NoConvergenceThreeUnique

\* themes ai, tax, war; the service answered the first pair with 0.6
C15_Witness ==
    /\ MoveReturned
    /\ ThreeSinglePoints
    /\ <<ThemeOf(1), ThemeOf(2), ThemeOf(3)>> = <<ThemeAi, ThemeTax, ThemeWar>>
    /\ pairsRun[1].ok[1]
    /\ ScoreBetween(ThemeAi, ThemeTax) = F(60)
    /\ NoConvergenceThreeUnique

\* the pairs (i, j), i < j, of 1..n in the order of the two nested loops
RECURSIVE PairsFrom(_, _, _)
PairsFrom(i, j, n) ==
    IF i > n THEN <<>>
    ELSE IF j > n THEN PairsFrom(i + 1, i + 2, n)
    ELSE <<(<<i, j>>)>> \o PairsFrom(i, j + 1, n)

PairsDone == [n \in 1..Len(pairsRun) |-> <<pairsRun[n].i, pairsRun[n].j>>]

\* theme and voices that the comparisons of the first n diffs call for:
\* first voice from worldview i, second from worldview j
RECURSIVE VoicesDue(_, _)
VoicesDue(kind, n) ==
    IF n = 0 THEN <<>>
    ELSE LET e == pairsRun[n]
             cmps == IF kind = "agreements" THEN e.diff[1].agreements
                                            ELSE e.diff[1].tensions
         IN  VoicesDue(kind, n - 1) \o
             [k \in 1..Len(cmps) |->
                 [theme |-> cmps[k].theme,
                  voices |-> << [subject |-> worldviews[e.i].subject,
                                 stance |-> cmps[k].point_a.stance],
                                [subject |-> worldviews[e.j].subject,
                                 stance |-> cmps[k].point_b.stance] >>]]

ThemeAndVoices(items) ==
    [k \in 1..Len(items) |-> [theme |-> items[k].theme, voices |-> items[k].voices]]

RECURSIVE SumSizes(_, _)
SumSizes(kind, n) ==
    IF n = 0 THEN 0
    ELSE SumSizes(kind, n - 1)
         + (IF kind = "agreements" THEN Len(pairsRun[n].diff[1].agreements)
                                   ELSE Len(pairsRun[n].diff[1].tensions))

\* C23: generate_movement diffs every pair (i, j) with i < j exactly once
\* and no other pair; Convergences holds one two-voice item per agreement
\* of those diffs and Tensions one per tension, first voice from worldview
\* i and second from worldview j, so the section sizes are the sums of
\* |agreements| and |tensions| over the pairs.
C23_EveryPairDiffedOnce ==
    mode = "move" =>
        /\ PairsDone = SubSeq(PairsFrom(1, 2, Len(worldviews)), 1, Len(pairsRun))
        /\ MoveReturned =>
              /\ PairsDone = PairsFrom(1, 2, Len(worldviews))
              /\ \A n \in 1..Len(pairsRun) :
                    /\ pairsRun[n].i < pairsRun[n].j
                    /\ pairsRun[n].diff # <<>>
                    /\ pairsRun[n].diff[1].subject_a = worldviews[pairsRun[n].i].subject
                    /\ pairsRun[n].diff[1].subject_b = worldviews[pairsRun[n].j].subject
              /\ ThemeAndVoices(Sections[1].content) = VoicesDue("agreements", Len(pairsRun))
              /\ ThemeAndVoices(Sections[2].content) = VoicesDue("tensions", Len(pairsRun))
              /\ SectionSize(1) = SumSizes("agreements", Len(pairsRun))
              /\ SectionSize(2) = SumSizes("tensions", Len(pairsRun))

\* three worldviews, three diffs, with an agreement and a tension among them
C23_Witness ==
    /\ MoveReturned
    /\ Len(worldviews) = 3
    /\ PairsDone = << <<1, 2>>, <<1, 3>>, <<2, 3>> >>
    /\ SectionSize(1) >= 1
    /\ SectionSize(2) >= 1

\* the two strings are equal when case is ignored
EqualIgnoringCase(t, u) ==
    /\ Len(t) = Len(u)
    /\ \A k \in 1..Len(t) : ToLowerChar(t[k]) = ToLowerChar(u[k])

\* no point of another worldview has point k of worldview i's theme
NoOtherHasTheme(i, k) ==
    \A o \in (1..Len(worldviews)) \ {i} :
        \A h \in 1..Len(worldviews[o].points) :
            ~EqualIgnoringCase(worldviews[o].points[h].theme,
                               worldviews[i].points[k].theme)

\* the single-voice items due for points 1..k of worldview i, in order
RECURSIVE UniqueDueIn(_, _)
UniqueDueIn(i, k) ==
    IF k = 0 THEN <<>>
    ELSE IF NoOtherHasTheme(i, k)
         THEN Append(UniqueDueIn(i, k - 1),
                     [theme |-> worldviews[i].points[k].theme,
                      voices |-> << [subject |-> worldviews[i].subject,
                                     stance |-> worldviews[i].points[k].stance] >>])
         ELSE UniqueDueIn(i, k - 1)

RECURSIVE UniqueDue(_)
UniqueDue(i) ==
    IF i = 0 THEN <<>>
    ELSE UniqueDue(i - 1) \o UniqueDueIn(i, Len(worldviews[i].points))

\* C24: a point of worldview i is a single-voice Unique Voices item exactly
\* when no point of another worldview has its theme under case-insensitive
\* equality, whatever the similarity service does and whatever other points
\* of worldview i share the theme.
C24_UniqueIffNoOtherHasTheme ==
    MoveReturned =>
        ThemeAndVoices(Sections[3].content) = UniqueDue(Len(worldviews))

\* two worldviews differ in case only on their theme and so are not unique;
\* the third one's theme is its own; the service ranked themes in each diff
C24_Witness ==
    /\ MoveReturned
    /\ Len(worldviews) = 3
    /\ worldviews[1].points = <<Point(ThemeAi, StanceYes)>>
    /\ worldviews[2].points = <<Point(ThemeAiCaps, StanceNot)>>
    /\ worldviews[3].points = <<Point(ThemeTax, StanceYes)>>
    /\ \A n \in 1..Len(pairsRun) : pairsRun[n].ok[1]
    /\ SectionSize(3) = 1
    /\ Sections[3].content[1].theme = ThemeTax

AllItems == Sections[1].content \o Sections[2].content \o Sections[3].content

\* C27: generate_movement drops no input point: every point of every
\* worldview is a voice (its subject with its stance) of at least one item
\* of Convergences, Tensions or Unique Voices.
C27_NoPointDropped ==
    MoveReturned =>
        \A i \in 1..Len(worldviews) : \A k \in 1..Len(worldviews[i].points) :
            \E n \in 1..Len(AllItems) : \E v \in 1..Len(AllItems[n].voices) :
                /\ AllItems[n].voices[v].subject = worldviews[i].subject
                /\ AllItems[n].voices[v].stance = worldviews[i].points[k].stance

\* the points that some diff of the run paired, with their worldview
PairedPoints ==
    UNION { LET e == pairsRun[n]
                cmps == e.diff[1].agreements \o e.diff[1].tensions
            IN  {<<e.i, cmps[k].point_a>> : k \in 1..Len(cmps)}
                \cup {<<e.j, cmps[k].point_b>> : k \in 1..Len(cmps)}
          : n \in 1..Len(pairsRun) }

\* the points listed in Unique Voices, with their worldview
UniquePoints ==
    UNION { {<<i, Point(Sections[3].content[n].theme,
                        Sections[3].content[n].voices[1].stance)>> :
                i \in {h \in 1..Len(worldviews) :
                          worldviews[h].subject = Sections[3].content[n].voices[1].subject}}
          : n \in 1..SectionSize(3) }

\* C28: the sections of a Movement are disjoint with respect to points: no
\* point that is a voice of a Unique Voices item is also a voice of a
\* Convergences or Tensions item.
C28_UniqueDisjointFromPaired ==
    MoveReturned => UniquePoints \cap PairedPoints = {}

(***************************************************************************)
(* Properties of parse_extraction and cmd_ingest                           *)
(***************************************************************************)
NoPoints(doc) == doc.kind = "object" /\ doc.points = <<>>

ConfidenceOutOfRange(doc) ==
    /\ doc.kind = "object"
    /\ \E k \in 1..Len(doc.points) :
          /\ doc.points[k].confidence.t = "number"
          /\ doc.points[k].confidence.v < 0 \/ doc.points[k].confidence.v > 100

Accepted == parsed # <<>> /\ parsed[1].tag = "Ok"

\* C26: a worldview parse_extraction accepts has at least one point and
\* every confidence within [0.0, 1.0]; a document with no points or with a
\* confidence outside the range yields an error and no worldview, and the
\* store is written only after a document was accepted.
C26_AcceptedWorldviewsAreValid ==
    /\ [](mode = "ingest" /\ parsed # <<>> =>
            /\ Accepted =>
                 /\ Len(parsed[1].wv[1].points) >= 1
                 /\ \A k \in 1..Len(parsed[1].wv[1].points) :
                       LET c == parsed[1].wv[1].points[k].confidence
                       IN  ~c.nan /\ 0 <= c.v /\ c.v <= 100
            /\ (NoPoints(content) \/ ConfidenceOutOfRange(content)) =>
                 /\ parsed[1].tag = "Err"
                 /\ parsed[1].wv = <<>>
                 /\ cmdResult = <<"Err">>)
    /\ [][store' # store =>
            Accepted /\ ~NoPoints(content) /\ ~ConfidenceOutOfRange(content)]_vars

\* a document whose one confidence is 1.01 was rejected and the worldview
\* saved earlier for the slug is still the stored one
C26_Witness ==
    /\ mode = "ingest"
    /\ pc = "done"
    /\ Len(content.points) = 1
    /\ content.points[1].confidence = [t |-> "number", v |-> 101]
    /\ parsed # <<>> /\ parsed[1].tag = "Err"
    /\ store["alice"] = <<PriorDoc>>

(***************************************************************************)
(* Properties of the TUI                                                   *)
(***************************************************************************)
OneLevelBack(screen) ==
    IF screen.tag = "WorldviewDetail" THEN ScreenWorldviewList ELSE ScreenHome

\* C30: on WorldviewDetail(slug) selected_worldview holds the worldview a
\* successful load_worldview(slug) returned; the detail screen is entered
\* only from the list, by Enter, with that load; and Esc goes back one
\* level, quitting from Home only.
C30_DetailOnlyAfterLoad ==
    /\ [](mode = "tui" /\ app.screen.tag = "WorldviewDetail" =>
            /\ app.selected_worldview # <<>>
            /\ loadedFor = <<app.screen.slug>>)
    /\ [][/\ app'.selected_worldview # app.selected_worldview =>
               /\ lastLoad' = <<"Ok", loadedFor'[1]>>
               /\ app'.selected_worldview = load_worldview(store, loadedFor'[1])
               /\ app'.selected_worldview # <<>>
          /\ loadedFor' # loadedFor => app'.screen = ScreenWorldviewDetail(loadedFor'[1])
          /\ (app'.screen.tag = "WorldviewDetail" /\ app'.screen # app.screen) =>
               /\ app.screen.tag = "WorldviewList"
               /\ lastMsg' = <<"Enter">>
               /\ lastLoad' = <<"Ok", app'.screen.slug>>
          /\ (mode = "tui" /\ lastMsg' = <<"Esc">>) =>
               /\ app'.screen = OneLevelBack(app.screen)
               /\ (pc' = "quit") <=> (app.screen.tag = "Home")
         ]_vars

\* Esc has stepped back from the detail of a loaded worldview to the list
C30_Witness ==
    /\ mode = "tui"
    /\ app.screen.tag = "WorldviewList"
    /\ lastMsg = <<"Esc">>
    /\ app.selected_worldview # <<>>
    /\ loadedFor # <<>>
    /\ app.selected_worldview[1].slug # loadedFor[1]

====
